---- MODULE Spec2Model ----
(***************************************************************************)
(* The protocol front-end of the ADI MCP server (src/src/main.rs): the     *)
(* line transport of main, the dispatcher McpServer::handle_request and    *)
(* the handlers it routes to, over the session state of McpServer.         *)
(* The index engine (adi_core::Adi) is external: every call to it returns  *)
(* an outcome chosen by the environment.                                   *)
(***************************************************************************)
EXTENDS Integers, Sequences, FiniteSets, TLC

VARIABLES
    adi,                  \* McpServer.adi: Option<Adi>; an engine is known by the root it was opened at
    project_path,         \* McpServer.project_path
    subscribed_resources, \* McpServer.subscribed_resources
    pc,                   \* position of main's loop
    line,                 \* Option: the line of stdin the loop is working on
    lock,                 \* the tokio Mutex around the server: TRUE while the guard is alive
    request,              \* Option<JsonRpcRequest>: the request decoded from the current line
    response,             \* Option<JsonRpcResponse>: the response built for the current line
    engine_calls,         \* engine operations invoked while handling the current request
    nread,                \* lines taken from stdin so far
    nonblank,             \* of these, the lines that were not blank
    stdout,               \* lines written to stdout; each is tagged with the non-blank line it answers
    flushed               \* how many lines of stdout have been flushed

vars == <<adi, project_path, subscribed_resources, pc, line, lock, request, response,
          engine_calls, nread, nonblank, stdout, flushed>>

session == <<adi, project_path, subscribed_resources>>

----------------------------------------------------------------------------
(* Option<T> *)

None == <<>>
Some(v) == <<v>>
IsSome(o) == o # None
IsNone(o) == o = None
Unwrap(o) == o[1]

----------------------------------------------------------------------------
(* serde_json::Value *)

JNull == [t |-> "null"]
JBool(b) == [t |-> "bool", b |-> b]
JNum(n) == [t |-> "num", n |-> n]
JStr(s) == [t |-> "str", s |-> s]
JObj(f) == [t |-> "obj", o |-> f]
\* a number held as f64, named by the text it is written as
JFloat(text) == [t |-> "float", f |-> text]

EmptyObj == JObj(<<>>)

\* Value::get(key) with a string key: a member of an object, None for anything else
JGet(v, k) == IF v.t = "obj" /\ k \in DOMAIN v.o THEN Some(v.o[k]) ELSE None

\* Option<Value>.and_then(|p| p.get(key))
OptGet(ov, k) == IF IsSome(ov) THEN JGet(Unwrap(ov), k) ELSE None

\* Option<&Value>.and_then(|v| v.as_str())
AsStr(ov) == IF IsSome(ov) /\ Unwrap(ov).t = "str" THEN Some(Unwrap(ov).s) ELSE None

\* AsI64 as it would be followed by unwrap_or(0)
AsI64OrZero(ov) == IF IsSome(ov) /\ Unwrap(ov).t = "num" THEN Some(Unwrap(ov).n) ELSE Some(0)

\* Option<&Value>.and_then(|v| v.as_i64())
AsI64(ov) == IF IsSome(ov) /\ Unwrap(ov).t = "num" THEN Some(Unwrap(ov).n) ELSE None

\* Option<&Value>.and_then(|v| v.as_u64())
AsU64(ov) ==
    IF IsSome(ov) /\ Unwrap(ov).t = "num" /\ Unwrap(ov).n >= 0 THEN Some(Unwrap(ov).n) ELSE None

\* Option::unwrap_or
UnwrapOr(o, d) == IF IsSome(o) THEN Unwrap(o) ELSE d

----------------------------------------------------------------------------
(* str *)

StartsWith(s, p) == Len(s) >= Len(p) /\ SubSeq(s, 1, Len(p)) = p

\* str::strip_prefix
StripPrefix(s, p) == IF StartsWith(s, p) THEN Some(SubSeq(s, Len(p) + 1, Len(s))) ELSE None

\* str::contains
Contains(s, sub) == \E i \in 1..(Len(s) - Len(sub) + 1) : SubSeq(s, i, i + Len(sub) - 1) = sub

Whitespace == {" ", "\t"}

RECURSIVE TrimStart(_)
TrimStart(s) ==
    IF Len(s) > 0 /\ SubSeq(s, 1, 1) \in Whitespace THEN TrimStart(SubSeq(s, 2, Len(s))) ELSE s

RECURSIVE TrimEnd(_)
TrimEnd(s) ==
    IF Len(s) > 0 /\ SubSeq(s, Len(s), Len(s)) \in Whitespace
    THEN TrimEnd(SubSeq(s, 1, Len(s) - 1)) ELSE s

\* str::trim
Trim(s) == TrimEnd(TrimStart(s))

----------------------------------------------------------------------------
(* JSON-RPC types *)

JArr(a) == [t |-> "arr", a |-> a]

\* A line of stdin is either raw text that is no JSON document, or the text
\* of the JSON document doc.
TextLine(s) == [text |-> s]
JsonLine(v) == [doc |-> v]
IsText(l) == "text" \in DOMAIN l

\* An integer literal of the line that overflows u64: the line holds its digits
JLiteral(digits) == [t |-> "literal", digits |-> digits]

\* 2^64 + 1
BEYOND_U64 == "18446744073709551617"

\* The f64 nearest to an integer literal, as serde_json writes it back
NearestF64(digits) ==
    CASE digits = BEYOND_U64 -> "1.8446744073709552e19"
      [] OTHER -> digits \o ".0"

\* serde_json's number parsing: an integer that overflows u64 is kept as the nearest f64
ParseNumber(v) == IF v.t = "literal" THEN JFloat(NearestF64(v.digits)) ELSE v

\* line.trim().is_empty()
IsBlank(l) == IsText(l) /\ Trim(l.text) = ""

\* An Option<Value> field of a derived Deserialize: a missing member and null are None
OptionField(doc, k) ==
    IF IsSome(JGet(doc, k)) /\ Unwrap(JGet(doc, k)).t # "null" THEN JGet(doc, k) ELSE None

\* DecodeRequest as it would be were the jsonrpc member optional (#[serde(default)])
DecodeRequestLenient(l) ==
    IF IsText(l) THEN None
    ELSE IF l.doc.t # "obj" THEN None
    ELSE IF IsNone(AsStr(JGet(l.doc, "method"))) THEN None
    ELSE Some([jsonrpc |-> UnwrapOr(AsStr(JGet(l.doc, "jsonrpc")), "2.0"),
               id      |-> IF IsSome(OptionField(l.doc, "id"))
                          THEN Some(ParseNumber(Unwrap(OptionField(l.doc, "id"))))
                          ELSE None,
               method  |-> Unwrap(AsStr(JGet(l.doc, "method"))),
               params  |-> OptionField(l.doc, "params")])

\* serde_json::from_str::<JsonRpcRequest>(&line): None stands for Err
DecodeRequest(l) ==
    IF IsText(l) THEN None
    ELSE IF l.doc.t # "obj" THEN None
    ELSE IF IsNone(AsStr(JGet(l.doc, "jsonrpc"))) THEN None
    ELSE IF IsNone(AsStr(JGet(l.doc, "method"))) THEN None
    ELSE Some([jsonrpc |-> Unwrap(AsStr(JGet(l.doc, "jsonrpc"))),
               id      |-> IF IsSome(OptionField(l.doc, "id"))
                          THEN Some(ParseNumber(Unwrap(OptionField(l.doc, "id"))))
                          ELSE None,
               method  |-> Unwrap(AsStr(JGet(l.doc, "method"))),
               params  |-> OptionField(l.doc, "params")])

JsonRpcError(code, message) == [code |-> code, message |-> message, data |-> None]

\* Result<Value, JsonRpcError>
Ok(v) == [ok |-> TRUE, value |-> v]
Err(e) == [ok |-> FALSE, error |-> e]

PARSE_ERROR == -32700
METHOD_NOT_FOUND == -32601
INVALID_PARAMS == -32602
INTERNAL_ERROR == -32603

----------------------------------------------------------------------------
(* The index engine, adi_core::Adi, as the handlers see it.  An outcome of  *)
(* an engine call is Some(data) for Ok(data) and None for Err(e); the       *)
(* environment env of a request names the operations that fail on it and    *)
(* the data the others return.                                              *)

EngineOps == {"search", "search_symbols", "search_files", "get_symbol", "get_file",
              "get_callers", "get_callees", "get_symbol_usage", "get_tree", "index",
              "status", "find_symbols_by_name"}

\* Display text of an engine error
ENGINE_ERROR == "engine error"

\* What the engine answers when the operation succeeds
EngineData(env, op) ==
    CASE op = "get_tree" -> [files |-> env.tree]
      [] op \in {"search_symbols", "find_symbols_by_name", "search", "get_callers",
                 "get_callees"} -> env.symbols
      [] op = "index" -> env.progress
      [] op = "get_file" ->
           [file |-> [language |-> env.language], symbols |-> env.symbols]
      [] op = "get_symbol_usage" ->
           [reference_count |-> Len(env.symbols), callers |-> env.symbols,
            callees |-> env.symbols]
      [] op = "status" ->
           [indexed_files |-> Len(env.tree), indexed_symbols |-> Len(env.symbols)]
      [] OTHER -> [data |-> op]

EngineCall(env, op) == IF op \in env.fail THEN None ELSE Some(EngineData(env, op))

\* A record of a call and of whether it returned Ok, kept in engine_calls
Call(op, args, ok) == [op |-> op, args |-> args, ok |-> ok]

\* A call whose outcome the environment env decides
EnvCall(env, op, args) == Call(op, args, op \notin env.fail)

\* serde_json::to_string_pretty(&x).unwrap_or_default(), of engine data
ToStringPretty(x) == [pretty |-> x]

RECURSIVE Join(_, _)
\* [String]::join(sep)
Join(strs, sep) ==
    IF Len(strs) = 0 THEN ""
    ELSE IF Len(strs) = 1 THEN strs[1]
    ELSE strs[1] \o sep \o Join(Tail(strs), sep)

----------------------------------------------------------------------------
(* Helper functions *)

\* A variant that reports an engine failure under a code of the server's own
to_rpc_error_server_code(display) == JsonRpcError(-32000, display)

to_rpc_error(display) == JsonRpcError(INTERNAL_ERROR, display)

\* A variant that returns the text itself, without the content list
tool_result_bare(text) == JStr(text)

tool_result(text) ==
    JObj([content |-> JArr(<<JObj([type |-> JStr("text"), text |-> JStr(text)])>>)])

\* What a handler hands back: its Result and the engine calls it made
Handled(result, calls) == [result |-> result, calls |-> calls]

\* expr.map_err(to_rpc_error)?: the error an engine failure turns into
EngineFailed(calls) == Handled(Err(to_rpc_error(ENGINE_ERROR)), calls)

----------------------------------------------------------------------------
(* McpServer::handle_initialize *)

CARGO_PKG_VERSION == "CARGO_PKG_VERSION"

\* A variant that falls back to the current directory whenever params name no root
ResolveProjectPathOrDefault(current, params) ==
    LET root_uri == AsStr(OptGet(params, "rootUri")) IN
    IF IsSome(root_uri)
    THEN UnwrapOr(StripPrefix(Unwrap(root_uri), "file://"), Unwrap(root_uri))
    ELSE "."

\* lines 154-159: the project root named by params, or the current one
ResolveProjectPath(current, params) ==
    LET root_uri == AsStr(OptGet(params, "rootUri")) IN
    IF IsSome(root_uri)
    THEN UnwrapOr(StripPrefix(Unwrap(root_uri), "file://"), Unwrap(root_uri))
    ELSE current

\* AfterOpen as it would be were the engine always opened at the current directory
AfterOpenAtDefault(current, path, open_ok) ==
    IF open_ok THEN Some([root |-> "."]) ELSE current

\* AfterOpen as it would be were an engine, once present, never replaced
AfterOpenOnce(current, path, open_ok) ==
    IF IsSome(current) THEN current
    ELSE IF open_ok THEN Some([root |-> path]) ELSE None

\* AfterOpen as it would be were the handle assigned from the outcome (self.adi = open.ok())
AfterOpenAssigned(current, path, open_ok) ==
    IF open_ok THEN Some([root |-> path]) ELSE None

\* AfterOpen as it would be were a handle kept whatever the outcome
AfterOpenAlways(current, path, open_ok) == Some([root |-> path])

\* lines 161-169: the engine handle after Adi::open(&self.project_path) returned
AfterOpen(current, path, open_ok) ==
    IF open_ok THEN Some([root |-> path]) ELSE current

\* lines 171-189
InitializeResult ==
    JObj([protocolVersion |-> JStr("2024-11-05"),
          capabilities |-> JObj([
              tools     |-> JObj([listChanged |-> JBool(FALSE)]),
              resources |-> JObj([subscribe |-> JBool(TRUE), listChanged |-> JBool(TRUE)]),
              prompts   |-> JObj([listChanged |-> JBool(FALSE)])]),
          serverInfo |-> JObj([name |-> JStr("adi-mcp"),
                               version |-> JStr(CARGO_PKG_VERSION)])])

\* handle_initialize as it would be were the failure of Adi::open propagated with the ? operator
handle_initialize_propagating(open_ok) ==
    IF open_ok THEN Ok(InitializeResult)
    ELSE Err(to_rpc_error(ENGINE_ERROR))

\* the Result of handle_initialize, whatever Adi::open returned
handle_initialize_result(open_ok) == Ok(InitializeResult)

----------------------------------------------------------------------------
(* Tools *)

Tool(name, properties, required) ==
    JObj([name |-> JStr(name),
          inputSchema |-> JObj([type |-> JStr("object"),
                                properties |-> properties,
                                required |-> required])])

ToolCatalog ==
    << Tool("search", {"query", "limit"}, <<"query">>),
       Tool("search_symbols", {"query", "limit"}, <<"query">>),
       Tool("search_files", {"query", "limit"}, <<"query">>),
       Tool("get_symbol", {"id"}, <<"id">>),
       Tool("get_file", {"path"}, <<"path">>),
       Tool("get_callers", {"id"}, <<"id">>),
       Tool("get_callees", {"id"}, <<"id">>),
       Tool("get_symbol_usage", {"id"}, <<"id">>),
       Tool("get_tree", {}, <<>>),
       Tool("index", {}, <<>>),
       Tool("status", {}, <<>>) >>

\* handle_tools_list as it would be were the catalog served only by a ready engine
handle_tools_list_when_ready ==
    IF IsNone(adi)
    THEN Handled(Err(JsonRpcError(INTERNAL_ERROR, "ADI not initialized")), <<>>)
    ELSE Handled(Ok(JObj([tools |-> JArr(ToolCatalog)])), <<>>)

handle_tools_list == Handled(Ok(JObj([tools |-> JArr(ToolCatalog)])), <<>>)

\* Clamp as it would be with the upper bound only (limit.min(100))
ClampAbove(x, lo, hi) == IF x > hi THEN hi ELSE x

\* usize::clamp
Clamp(x, lo, hi) == IF x < lo THEN lo ELSE IF x > hi THEN hi ELSE x

DEFAULT_LIMIT == 10
SEARCH_LIMIT_MIN == 1
SEARCH_LIMIT_MAX == 100

\* UnknownTool as it would be were the wildcard arm that of handle_request
UnknownToolAsMethod(name) ==
    Handled(Err(JsonRpcError(METHOD_NOT_FOUND, "Method not found")), <<>>)

\* lines 466-470: the wildcard arm of the match on the tool name
UnknownTool(name) ==
    Handled(Err(JsonRpcError(INVALID_PARAMS, "Unknown tool: " \o name)), <<>>)

\* lines 376-471: the match on the tool name, with the engine present
CallTool(name, arguments, env) ==
    LET query == UnwrapOr(AsStr(JGet(arguments, "query")), "")
        limit == UnwrapOr(AsU64(JGet(arguments, "limit")), DEFAULT_LIMIT)
        id    == AsI64(JGet(arguments, "id"))
        path  == AsStr(JGet(arguments, "path"))
        Text(data) == tool_result(ToStringPretty(data))
        Run(op, args) ==
            IF IsNone(EngineCall(env, op)) THEN EngineFailed(<<EnvCall(env, op, args)>>)
            ELSE Handled(Ok(Text(Unwrap(EngineCall(env, op)))), <<EnvCall(env, op, args)>>)
        ById(op) ==
            IF IsNone(id)
            THEN Handled(Err(JsonRpcError(INVALID_PARAMS, "Missing symbol id")), <<>>)
            ELSE Run(op, <<Unwrap(id)>>)
        Summary(progress) ==
            tool_result("Indexed " \o ToString(progress.files_processed)
                        \o " files with " \o ToString(progress.symbols_indexed)
                        \o " symbols. Errors: "
                        \o (IF Len(progress.errors) = 0 THEN "none"
                            ELSE Join(progress.errors, ", ")))
    IN  CASE name = "search" ->
               Run("search", <<query, Clamp(limit, SEARCH_LIMIT_MIN, SEARCH_LIMIT_MAX)>>)
          [] name = "search_symbols" -> Run("search_symbols", <<query, limit>>)
          [] name = "search_files" -> Run("search_files", <<query, limit>>)
          [] name = "get_symbol" -> ById("get_symbol")
          [] name = "get_file" ->
               IF IsNone(path)
               THEN Handled(Err(JsonRpcError(INVALID_PARAMS, "Missing file path")), <<>>)
               ELSE Run("get_file", <<Unwrap(path)>>)
          [] name = "get_callers" -> ById("get_callers")
          [] name = "get_callees" -> ById("get_callees")
          [] name = "get_symbol_usage" -> ById("get_symbol_usage")
          [] name = "get_tree" -> Run("get_tree", <<>>)
          [] name = "index" ->
               IF IsNone(EngineCall(env, "index")) THEN EngineFailed(<<EnvCall(env, "index", <<>>)>>)
               ELSE Handled(Ok(Summary(Unwrap(EngineCall(env, "index")))),
                            <<EnvCall(env, "index", <<>>)>>)
          [] name = "status" -> Run("status", <<>>)
          [] OTHER -> UnknownTool(name)

\* handle_tools_call as it would be without the check of self.adi
handle_tools_call_unguarded(engine, params, env) ==
    IF IsNone(params)
    THEN Handled(Err(JsonRpcError(INVALID_PARAMS, "Missing params")), <<>>)
    ELSE LET name == AsStr(JGet(Unwrap(params), "name"))
             arguments == UnwrapOr(JGet(Unwrap(params), "arguments"), EmptyObj)
         IN  IF IsNone(name)
             THEN Handled(Err(JsonRpcError(INVALID_PARAMS, "Missing tool name")), <<>>)
             ELSE CallTool(Unwrap(name), arguments, env)

\* handle_tools_call as it would be were self.adi checked first
handle_tools_call_engine_first(engine, params, env) ==
    IF IsNone(engine)
    THEN Handled(Err(JsonRpcError(INTERNAL_ERROR,
                     "ADI not initialized. Call initialize first.")), <<>>)
    ELSE IF IsNone(params)
    THEN Handled(Err(JsonRpcError(INVALID_PARAMS, "Missing params")), <<>>)
    ELSE LET name == AsStr(JGet(Unwrap(params), "name"))
             arguments == UnwrapOr(JGet(Unwrap(params), "arguments"), EmptyObj)
         IN  IF IsNone(name)
             THEN Handled(Err(JsonRpcError(INVALID_PARAMS, "Missing tool name")), <<>>)
             ELSE CallTool(Unwrap(name), arguments, env)

\* lines 352-375, then the match
handle_tools_call(engine, params, env) ==
    IF IsNone(params)
    THEN Handled(Err(JsonRpcError(INVALID_PARAMS, "Missing params")), <<>>)
    ELSE LET name == AsStr(JGet(Unwrap(params), "name"))
             arguments == UnwrapOr(JGet(Unwrap(params), "arguments"), EmptyObj)
         IN  IF IsNone(name)
             THEN Handled(Err(JsonRpcError(INVALID_PARAMS, "Missing tool name")), <<>>)
             ELSE IF IsNone(engine)
             THEN Handled(Err(JsonRpcError(INTERNAL_ERROR,
                              "ADI not initialized. Call initialize first.")), <<>>)
             ELSE CallTool(Unwrap(name), arguments, env)

----------------------------------------------------------------------------
(* Resources *)

McpResource(uri, name, description, mime_type) ==
    JObj([uri |-> JStr(uri), name |-> JStr(name),
          description |-> JStr(description), mimeType |-> JStr(mime_type)])

McpResourceContent(uri, mime_type, text) ==
    JObj([uri |-> JStr(uri), mimeType |-> JStr(mime_type), text |-> JStr(text)])

\* adi_core::Language::as_str, a language being known by its name
LanguageAsStr(lang) == lang

language_to_mime(lang) ==
    CASE lang = "rust" -> "text/x-rust"
      [] lang = "python" -> "text/x-python"
      [] lang = "javascript" -> "text/javascript"
      [] lang = "typescript" -> "text/typescript"
      [] lang = "java" -> "text/x-java"
      [] lang = "go" -> "text/x-go"
      [] lang = "c" -> "text/x-c"
      [] lang = "cpp" -> "text/x-c++"
      [] lang = "csharp" -> "text/x-csharp"
      [] lang = "ruby" -> "text/x-ruby"
      [] lang = "php" -> "text/x-php"
      [] lang = "kotlin" -> "text/x-kotlin"
      [] lang = "scala" -> "text/x-scala"
      [] lang = "swift" -> "text/x-swift"
      [] lang = "bash" -> "text/x-shellscript"
      [] lang = "json" -> "application/json"
      [] lang = "yaml" -> "text/yaml"
      [] lang = "toml" -> "text/x-toml"
      [] lang = "xml" -> "application/xml"
      [] lang = "html" -> "text/html"
      [] lang = "css" -> "text/css"
      [] lang = "markdown" -> "text/markdown"
      [] OTHER -> "text/plain"

RECURSIVE FileName(_)
\* Path::file_name as a string: what follows the last separator
FileName(path) ==
    IF Contains(path, "/")
    THEN FileName(SubSeq(path, 2, Len(path)))
    ELSE path

\* Iterator::take(n) of a sequence
Take(seq, n) == SubSeq(seq, 1, IF Len(seq) < n THEN Len(seq) ELSE n)

MAX_FILE_RESOURCES == 100

\* lines 512-525: one file of the tree as a resource
FileResource(file_node) ==
    McpResource("adi://file/" \o file_node.path,
                FileName(file_node.path),
                LanguageAsStr(file_node.language) \o " file with "
                    \o ToString(file_node.symbols) \o " symbols",
                language_to_mime(file_node.language))

FixedResources ==
    << McpResource("adi://status", "Index Status",
                   "Current indexing status and statistics", "application/json"),
       McpResource("adi://tree", "Project Tree",
                   "Hierarchical view of all indexed files and symbols", "application/json"),
       McpResource("adi://config", "Configuration",
                   "Current ADI configuration", "application/json") >>

\* handle_resources_list as it would be were the absent engine an error, as in handle_resources_read
handle_resources_list_strict(engine, params, env) ==
    IF IsNone(engine)
    THEN Handled(Err(JsonRpcError(INTERNAL_ERROR, "ADI not initialized")), <<>>)
    ELSE LET tree == EngineCall(env, "get_tree")
             files == IF IsSome(tree) THEN Take(Unwrap(tree).files, MAX_FILE_RESOURCES)
                      ELSE <<>>
         IN  Handled(Ok(JObj([resources |->
                         JArr(FixedResources
                              \o [i \in 1..Len(files) |-> FileResource(files[i])])])),
                     <<EnvCall(env, "get_tree", <<>>)>>)

\* handle_resources_list as it would be without take(100)
handle_resources_list_uncapped(engine, params, env) ==
    IF IsNone(engine)
    THEN Handled(Ok(JObj([resources |-> JArr(<<>>)])), <<>>)
    ELSE LET tree == EngineCall(env, "get_tree")
             files == IF IsSome(tree) THEN Unwrap(tree).files ELSE <<>>
         IN  Handled(Ok(JObj([resources |->
                         JArr(FixedResources
                              \o [i \in 1..Len(files) |-> FileResource(files[i])])])),
                     <<EnvCall(env, "get_tree", <<>>)>>)

handle_resources_list(engine, params, env) ==
    IF IsNone(engine)
    THEN Handled(Ok(JObj([resources |-> JArr(<<>>)])), <<>>)
    ELSE LET tree == EngineCall(env, "get_tree")
             files == IF IsSome(tree) THEN Take(Unwrap(tree).files, MAX_FILE_RESOURCES)
                      ELSE <<>>
         IN  Handled(Ok(JObj([resources |->
                         JArr(FixedResources
                              \o [i \in 1..Len(files) |-> FileResource(files[i])])])),
                     <<EnvCall(env, "get_tree", <<>>)>>)

DigitValue(c) ==
    CASE c = "0" -> 0 [] c = "1" -> 1 [] c = "2" -> 2 [] c = "3" -> 3 [] c = "4" -> 4
      [] c = "5" -> 5 [] c = "6" -> 6 [] c = "7" -> 7 [] c = "8" -> 8 [] c = "9" -> 9
      [] OTHER -> -1

RECURSIVE ParseDigits(_, _)
\* the digits of s read after the value acc; None at the first character that is no digit
ParseDigits(s, acc) ==
    IF Len(s) = 0 THEN Some(acc)
    ELSE IF DigitValue(SubSeq(s, 1, 1)) < 0 THEN None
    ELSE ParseDigits(SubSeq(s, 2, Len(s)), acc * 10 + DigitValue(SubSeq(s, 1, 1)))

\* every character of s is a decimal digit
AllDigits(s) == \A i \in 1..Len(s) : DigitValue(SubSeq(s, i, i)) >= 0

\* s from its first character that is not "0"; the last character is kept in any case
StripLeadingZeros(s) ==
    LET significant == { i \in 1..Len(s) : SubSeq(s, i, i) # "0" \/ i = Len(s) }
    IN  IF significant = {} THEN s
        ELSE SubSeq(s, CHOOSE i \in significant : \A j \in significant : i <= j, Len(s))

\* The decimal digits of i64::MAX are 19: a number of more digits overflows
I64_MAX_DIGITS == 19

\* ParseI64 as it would be were an unparsable id read as 0
ParseI64OrZero(s) ==
    LET Parse(str) ==
            LET signed == Len(str) > 0 /\ SubSeq(str, 1, 1) \in {"+", "-"}
                digits == IF signed THEN SubSeq(str, 2, Len(str)) ELSE str
                overflow == Len(StripLeadingZeros(digits)) > I64_MAX_DIGITS
                magnitude == ParseDigits(IF overflow THEN "" ELSE StripLeadingZeros(digits), 0)
            IN  IF Len(digits) = 0 \/ ~AllDigits(digits) \/ overflow THEN Some(0)
                ELSE IF signed /\ SubSeq(str, 1, 1) = "-" THEN Some(0 - Unwrap(magnitude))
                ELSE magnitude
    IN  CHOOSE parsed \in { Parse(str) : str \in {s} } : TRUE

\* str::parse::<i64>: an optional sign, then at least one digit and only
\* digits; Err(PosOverflow / NegOverflow) for a number of more digits than an
\* i64 has.  The text s is evaluated once and parsed as a value.
ParseI64(s) ==
    LET Parse(str) ==
            LET signed == Len(str) > 0 /\ SubSeq(str, 1, 1) \in {"+", "-"}
                digits == IF signed THEN SubSeq(str, 2, Len(str)) ELSE str
                overflow == Len(StripLeadingZeros(digits)) > I64_MAX_DIGITS
                magnitude == ParseDigits(IF overflow THEN "" ELSE StripLeadingZeros(digits), 0)
            IN  IF Len(digits) = 0 \/ ~AllDigits(digits) THEN None
                ELSE IF overflow THEN None
                ELSE IF signed /\ SubSeq(str, 1, 1) = "-" THEN Some(0 - Unwrap(magnitude))
                ELSE magnitude
    IN  CHOOSE parsed \in { Parse(str) : str \in {s} } : TRUE

\* std::fs::read_to_string(path), when it succeeds
ReadToString(path) == "<content of " \o path \o ">"

\* PathBuf::join of a relative path
PathJoin(base, rel) == base \o "/" \o rel

\* lines 552-635: the match on the uri, with the engine present
\* UnknownResourceUri as it would be were the failure passed through to_rpc_error
UnknownResourceUriInternal(uri) ==
    Handled(Err(to_rpc_error("Unknown resource URI")), <<>>)

\* lines 628-634: the wildcard arm of the match on the uri
UnknownResourceUri(uri) ==
    Handled(Err(JsonRpcError(INVALID_PARAMS, "Unknown resource URI: " \o uri)), <<>>)

ReadResource(engine, uri, env) ==
    LET Contents(mime, text) ==
            Ok(JObj([contents |-> JArr(<<McpResourceContent(uri, mime, text)>>)]))
        Plain(op) ==
            IF IsNone(EngineCall(env, op)) THEN EngineFailed(<<EnvCall(env, op, <<>>)>>)
            ELSE Handled(Contents("application/json",
                                  ToStringPretty(Unwrap(EngineCall(env, op)))),
                         <<EnvCall(env, op, <<>>)>>)
    IN  CASE uri = "adi://status" -> Plain("status")
          [] uri = "adi://tree" -> Plain("get_tree")
          [] uri = "adi://config" ->
               Handled(Contents("application/json", ToStringPretty([data |-> "config"])),
                       <<Call("config", <<>>, TRUE)>>)
          [] uri \notin {"adi://status", "adi://tree", "adi://config"}
               /\ StartsWith(uri, "adi://file/") ->
               LET path == Unwrap(StripPrefix(uri, "adi://file/"))
                   file_info == EngineCall(env, "get_file")
                   full_path == PathJoin(engine.root, path)
                   calls == <<EnvCall(env, "get_file", <<path>>)>>
               IN  IF IsNone(file_info) THEN EngineFailed(calls)
                   ELSE Handled(
                          Contents(language_to_mime(Unwrap(file_info).file.language),
                                   IF env.fs_ok
                                   THEN [file |-> Unwrap(file_info).file,
                                         symbols |-> Unwrap(file_info).symbols,
                                         content |-> ReadToString(full_path)]
                                   ELSE ToStringPretty(Unwrap(file_info))),
                          calls \o <<Call("project_path", <<>>, TRUE)>>)
          [] uri \notin {"adi://status", "adi://tree", "adi://config"}
               /\ ~StartsWith(uri, "adi://file/")
               /\ StartsWith(uri, "adi://symbol/") ->
               LET id == ParseI64(Unwrap(StripPrefix(uri, "adi://symbol/")))
                   symbol == EngineCall(env, "get_symbol")
                   usage == EngineCall(env, "get_symbol_usage")
               IN  IF IsNone(id)
                   THEN Handled(Err(JsonRpcError(INVALID_PARAMS, "Invalid symbol ID")), <<>>)
                   ELSE IF IsNone(symbol)
                   THEN EngineFailed(<<EnvCall(env, "get_symbol", <<Unwrap(id)>>)>>)
                   ELSE Handled(
                          Contents("application/json",
                                   ToStringPretty([symbol |-> Unwrap(symbol),
                                                   usage |-> usage])),
                          <<EnvCall(env, "get_symbol", <<Unwrap(id)>>),
                            EnvCall(env, "get_symbol_usage", <<Unwrap(id)>>)>>)
          [] OTHER -> UnknownResourceUri(uri)

\* handle_resources_read as it would be were unknown URIs refused before the check of self.adi
handle_resources_read_uri_first(engine, params, env) ==
    IF IsNone(params)
    THEN Handled(Err(JsonRpcError(INVALID_PARAMS, "Missing params")), <<>>)
    ELSE LET uri == AsStr(JGet(Unwrap(params), "uri")) IN
         IF IsNone(uri)
         THEN Handled(Err(JsonRpcError(INVALID_PARAMS, "Missing uri parameter")), <<>>)
         ELSE IF /\ Unwrap(uri) \notin {"adi://status", "adi://tree", "adi://config"}
                 /\ ~StartsWith(Unwrap(uri), "adi://file/")
                 /\ ~StartsWith(Unwrap(uri), "adi://symbol/")
         THEN UnknownResourceUri(Unwrap(uri))
         ELSE IF IsNone(engine)
         THEN Handled(Err(JsonRpcError(INTERNAL_ERROR, "ADI not initialized")), <<>>)
         ELSE ReadResource(Unwrap(engine), Unwrap(uri), env)

\* handle_resources_read as it would be were an unreadable file an error
handle_resources_read_strict_fs(engine, params, env) ==
    IF IsNone(params)
    THEN Handled(Err(JsonRpcError(INVALID_PARAMS, "Missing params")), <<>>)
    ELSE LET uri == AsStr(JGet(Unwrap(params), "uri")) IN
         IF IsNone(uri)
         THEN Handled(Err(JsonRpcError(INVALID_PARAMS, "Missing uri parameter")), <<>>)
         ELSE IF IsNone(engine)
         THEN Handled(Err(JsonRpcError(INTERNAL_ERROR, "ADI not initialized")), <<>>)
         ELSE IF ~env.fs_ok /\ StartsWith(Unwrap(uri), "adi://file/")
         THEN Handled(Err(to_rpc_error("No such file or directory")),
                      ReadResource(Unwrap(engine), Unwrap(uri), env).calls)
         ELSE ReadResource(Unwrap(engine), Unwrap(uri), env)

\* lines 533-551, then the match
handle_resources_read(engine, params, env) ==
    IF IsNone(params)
    THEN Handled(Err(JsonRpcError(INVALID_PARAMS, "Missing params")), <<>>)
    ELSE LET uri == AsStr(JGet(Unwrap(params), "uri")) IN
         IF IsNone(uri)
         THEN Handled(Err(JsonRpcError(INVALID_PARAMS, "Missing uri parameter")), <<>>)
         ELSE IF IsNone(engine)
         THEN Handled(Err(JsonRpcError(INTERNAL_ERROR, "ADI not initialized")), <<>>)
         ELSE ReadResource(Unwrap(engine), Unwrap(uri), env)

\* lines 643-653, shared in shape by subscribe and unsubscribe: the uri or the error
UriParameter(params) ==
    IF IsNone(params)
    THEN Err(JsonRpcError(INVALID_PARAMS, "Missing params"))
    ELSE IF IsNone(AsStr(JGet(Unwrap(params), "uri")))
    THEN Err(JsonRpcError(INVALID_PARAMS, "Missing uri parameter"))
    ELSE Ok(Unwrap(AsStr(JGet(Unwrap(params), "uri"))))

\* handle_resources_subscribe: the set afterwards and the Result
SubscribeSet(subs, params) ==
    IF UriParameter(params).ok THEN subs \cup {UriParameter(params).value} ELSE subs

\* handle_resources_subscribe as it would be were subscriptions taken by a ready engine only
handle_resources_subscribe_when_ready(params) ==
    IF ~UriParameter(params).ok THEN UriParameter(params)
    ELSE IF IsNone(adi) THEN Err(JsonRpcError(INTERNAL_ERROR, "ADI not initialized"))
    ELSE Ok(EmptyObj)

handle_resources_subscribe(params) ==
    IF UriParameter(params).ok THEN Ok(EmptyObj) ELSE UriParameter(params)

\* UnsubscribeSet as it would be with clear() in place of remove(uri)
UnsubscribeSetCleared(subs, params) ==
    IF UriParameter(params).ok THEN {} ELSE subs

\* handle_resources_unsubscribe: the set afterwards and the Result
UnsubscribeSet(subs, params) ==
    IF UriParameter(params).ok THEN subs \ {UriParameter(params).value} ELSE subs

handle_resources_unsubscribe(params) ==
    IF UriParameter(params).ok THEN Ok(EmptyObj) ELSE UriParameter(params)

ResourceTemplate(uri_template, name) ==
    JObj([uriTemplate |-> JStr(uri_template), name |-> JStr(name),
          mimeType |-> JStr("application/json")])

handle_resource_templates_list ==
    Handled(Ok(JObj([resourceTemplates |->
                JArr(<< ResourceTemplate("adi://file/{path}", "Source File"),
                        ResourceTemplate("adi://symbol/{id}", "Symbol Details") >>)])),
            <<>>)

----------------------------------------------------------------------------
(* Prompts *)

PromptArgument(name, required) == JObj([name |-> JStr(name), required |-> JBool(required)])

Prompt(name, arguments) == JObj([name |-> JStr(name), arguments |-> JArr(arguments)])

PromptCatalog ==
    << Prompt("code_review", <<PromptArgument("file_path", TRUE),
                               PromptArgument("focus", FALSE)>>),
       Prompt("explain_symbol", <<PromptArgument("symbol_name", TRUE)>>),
       Prompt("find_similar", <<PromptArgument("description", TRUE)>>),
       Prompt("analyze_dependencies", <<PromptArgument("target", TRUE),
                                        PromptArgument("direction", FALSE)>>),
       Prompt("summarize_file", <<PromptArgument("file_path", TRUE)>>),
       Prompt("refactor_suggestions", <<PromptArgument("target", TRUE)>>),
       Prompt("architecture_overview", <<>>) >>

handle_prompts_list(params) == Handled(Ok(JObj([prompts |-> JArr(PromptCatalog)])), <<>>)

get_prompt_description(name) ==
    CASE name = "code_review" -> "Code review with focus on quality, bugs, and improvements"
      [] name = "explain_symbol" -> "Explanation of symbol purpose and usage"
      [] name = "find_similar" -> "Search for similar code patterns"
      [] name = "analyze_dependencies" -> "Dependency graph analysis"
      [] name = "summarize_file" -> "File purpose and content summary"
      [] name = "refactor_suggestions" -> "Refactoring recommendations"
      [] name = "architecture_overview" -> "Project architecture overview"
      [] OTHER -> "Prompt"

\* the apostrophe of the message texts, and a stand-in for the Markdown code
\* fence (three backquotes), which a TLA+ string cannot hold
FENCE == "<fence>"
Q == "'"

McpMessage(text) ==
    JObj([role |-> JStr("user"),
          content |-> JObj([type |-> JStr("text"), text |-> JStr(text)])])

NameAndKind(s) == s.name \o " (" \o s.kind \o ")"
NameOf(s) == s.name
NameAndFile(s) == "  - " \o s.name \o " (" \o s.file_path \o ")"
DocLine(s) == "- " \o s.name \o " (" \o s.kind \o "): " \o UnwrapOr(s.doc_comment, "no documentation")

\* lines 810-1020: the match on the prompt name, with the engine present.
\* None stands for the unknown name; otherwise the text of the one message and the calls made.
ComposePrompt(engine, name, arguments, env) ==
    LET Arg(key, default) == UnwrapOr(AsStr(JGet(arguments, key)), default)
        file_path == Arg("file_path", "")
        target == Arg("target", "")
        file_info == EngineCall(env, "get_file")
        content == IF env.fs_ok THEN Some(ReadToString(PathJoin(engine.root, file_path)))
                   ELSE None
        file_calls == <<EnvCall(env, "get_file", <<file_path>>), Call("project_path", <<>>, TRUE)>>
        found(n) == UnwrapOr(EngineCall(env, "find_symbols_by_name"), <<>>)
        usage == EngineCall(env, "get_symbol_usage")
        UsageCalls(symbols) ==
            [i \in 1..Len(symbols) |-> EnvCall(env, "get_symbol_usage", <<symbols[i].id>>)]
    IN  CASE name = "code_review" ->
               Some([text |->
                       "Please review the following code with a focus on "
                       \o Arg("focus", "general") \o ".\n\n"
                       \o (IF IsSome(file_info)
                           THEN "File: " \o file_path \o "\nLanguage: "
                                \o LanguageAsStr(Unwrap(file_info).file.language)
                                \o "\nSymbols: "
                                \o Join([i \in 1..Len(Unwrap(file_info).symbols) |-> NameAndKind(Unwrap(file_info).symbols[i])], ", ")
                                \o "\n"
                           ELSE "File: " \o file_path)
                       \o "\n\nCode:\n" \o FENCE \o "\n"
                       \o UnwrapOr(content, "[File content not available]")
                       \o "\n" \o FENCE \o "\n\nProvide specific, actionable feedback.",
                     calls |-> file_calls])
          [] name = "explain_symbol" ->
               LET symbol_name == Arg("symbol_name", "")
                   symbols == Take(found(symbol_name), 3)
                   usage_info == IF IsSome(usage) THEN symbols ELSE <<>>
                   Describe(sym) ==
                       "Symbol: " \o sym.name \o " (" \o sym.kind \o ")\nFile: "
                       \o sym.file_path \o "\nSignature: " \o UnwrapOr(sym.signature, "N/A")
                       \o "\nDoc: " \o UnwrapOr(sym.doc_comment, "N/A")
                       \o "\nCallers: " \o Join([i \in 1..Len(Unwrap(usage).callers) |-> NameOf(Unwrap(usage).callers[i])], ", ")
                       \o "\nCallees: " \o Join([i \in 1..Len(Unwrap(usage).callees) |-> NameOf(Unwrap(usage).callees[i])], ", ")
               IN  Some([text |->
                           "Please explain what " \o Q \o symbol_name
                           \o Q \o " does and how it" \o Q \o "s used in this codebase.\n\nContext from code index:\n"
                           \o (IF Len(usage_info) > 0
                               THEN Join([i \in 1..Len(usage_info) |-> Describe(usage_info[i])], "\n\n---\n\n")
                               ELSE "No symbol found with name: " \o symbol_name),
                         calls |-> <<EnvCall(env, "find_symbols_by_name", <<symbol_name>>)>>
                                   \o UsageCalls(symbols)])
          [] name = "find_similar" ->
               Some([text |->
                       "Find code in this codebase that is similar to or implements: "
                       \o Arg("description", "")
                       \o "\n\nUse the " \o Q \o "search" \o Q \o " tool with semantic search to find relevant symbols, then analyze them.",
                     calls |-> <<>>])
          [] name = "analyze_dependencies" ->
               LET direction == Arg("direction", "both")
                   symbols == Take(found(target), 1)
                   callers == IF direction # "callees" THEN EngineCall(env, "get_callers")
                              ELSE None
                   callees == IF direction # "callers" THEN EngineCall(env, "get_callees")
                              ELSE None
                   Listing(deps) ==
                       IF IsSome(deps) THEN Join([i \in 1..Len(Unwrap(deps)) |-> NameAndFile(Unwrap(deps)[i])], "\n") ELSE "N/A"
                   Count(deps) == IF IsSome(deps) THEN Len(Unwrap(deps)) ELSE 0
                   Info(sym) ==
                       "Symbol: " \o sym.name \o " (" \o sym.kind \o ")\nFile: "
                       \o sym.file_path
                       \o "\nCallers (" \o ToString(Count(callers)) \o "):\n" \o Listing(callers)
                       \o "\n\nCallees (" \o ToString(Count(callees)) \o "):\n" \o Listing(callees)
                   dep_info == Join([i \in 1..Len(symbols) |-> Info(symbols[i])], "")
               IN  Some([text |->
                           "Analyze the dependency graph for " \o Q \o target \o Q \o " (direction: "
                           \o direction \o ").\n\nDependency Information:\n"
                           \o (IF dep_info = "" THEN "No symbol found" ELSE dep_info),
                         calls |-> <<EnvCall(env, "find_symbols_by_name", <<target>>)>>
                                   \o (IF Len(symbols) > 0 /\ direction # "callees"
                                       THEN <<EnvCall(env, "get_callers", <<symbols[1].id>>)>> ELSE <<>>)
                                   \o (IF Len(symbols) > 0 /\ direction # "callers"
                                       THEN <<EnvCall(env, "get_callees", <<symbols[1].id>>)>> ELSE <<>>)])
          [] name = "summarize_file" ->
               Some([text |->
                       "Please summarize the purpose and contents of this file.\n\nFile: "
                       \o file_path \o "\nLanguage: "
                       \o (IF IsSome(file_info)
                           THEN LanguageAsStr(Unwrap(file_info).file.language) ELSE "unknown")
                       \o "\n\nSymbols:\n"
                       \o (IF IsSome(file_info)
                           THEN Join([i \in 1..Len(Unwrap(file_info).symbols) |-> DocLine(Unwrap(file_info).symbols[i])], "\n") ELSE "")
                       \o "\n\nCode:\n" \o FENCE \o "\n"
                       \o UnwrapOr(content, "[Content not available]") \o "\n" \o FENCE,
                     calls |-> file_calls])
          [] name = "refactor_suggestions" ->
               LET symbols == Take(found(target), 1)
                   Context(sym) ==
                       "Symbol: " \o sym.name \o " (" \o sym.kind \o ")\nFile: "
                       \o sym.file_path
                       \o "\nReferences: " \o ToString(Unwrap(usage).reference_count)
                       \o "\nCallers: " \o ToString(Len(Unwrap(usage).callers))
                       \o "\nCallees: " \o ToString(Len(Unwrap(usage).callees))
                   context == IF IsSome(usage) THEN Join([i \in 1..Len(symbols) |-> Context(symbols[i])], "") ELSE ""
               IN  Some([text |->
                           "Suggest refactoring opportunities for " \o Q \o target
                           \o Q \o ".\n\nContext:\n"
                           \o (IF context = ""
                               THEN "No symbol found. Try searching with the " \o Q \o "search" \o Q \o " tool."
                               ELSE context),
                         calls |-> <<EnvCall(env, "find_symbols_by_name", <<target>>)>>
                                   \o UsageCalls(symbols)])
          [] name = "architecture_overview" ->
               LET tree == EngineCall(env, "get_tree")
                   status == EngineCall(env, "status")
                   files == Unwrap(tree).files
                   languages == {files[i].language : i \in 1..Len(files)}
                   FilesOf(lang) == Cardinality({i \in 1..Len(files) : files[i].language = lang})
               IN  Some([text |-> [
                         intro |->
                           "Generate an architecture overview for this project based on the indexed structure.\n\n",
                         \* the HashMap by_language is listed in no particular order
                         overview |->
                           IF IsSome(tree)
                           THEN [total_files |->
                                   IF IsSome(status) THEN Unwrap(status).indexed_files ELSE 0,
                                 total_symbols |->
                                   IF IsSome(status) THEN Unwrap(status).indexed_symbols ELSE 0,
                                 by_language |->
                                   {LanguageAsStr(l) \o ": " \o ToString(FilesOf(l)) \o " files"
                                      : l \in languages}]
                           ELSE [none |-> "No index available. Run the " \o Q \o "index" \o Q \o " tool first."]],
                         calls |-> <<EnvCall(env, "get_tree", <<>>), EnvCall(env, "status", <<>>)>>])
          [] OTHER -> None

\* lines 789-809, the match, and lines 1022-1025
\* handle_prompts_get as it would be were engine failures propagated with map_err(to_rpc_error)
handle_prompts_get_propagating(engine, params, env) ==
    IF IsNone(params)
    THEN Handled(Err(JsonRpcError(INVALID_PARAMS, "Missing params")), <<>>)
    ELSE LET name == AsStr(JGet(Unwrap(params), "name"))
             arguments == UnwrapOr(JGet(Unwrap(params), "arguments"), EmptyObj)
         IN  IF IsNone(name)
             THEN Handled(Err(JsonRpcError(INVALID_PARAMS, "Missing prompt name")), <<>>)
             ELSE IF IsNone(engine)
             THEN Handled(Err(JsonRpcError(INTERNAL_ERROR, "ADI not initialized")), <<>>)
             ELSE LET composed == ComposePrompt(Unwrap(engine), Unwrap(name), arguments, env)
                  IN  IF IsNone(composed)
                      THEN Handled(Err(JsonRpcError(INVALID_PARAMS,
                                       "Unknown prompt: " \o Unwrap(name))), <<>>)
                      ELSE IF \E i \in 1..Len(Unwrap(composed).calls) :
                                 ~Unwrap(composed).calls[i].ok
                      THEN EngineFailed(Unwrap(composed).calls)
                      ELSE Handled(
                             Ok(JObj([description |->
                                        JStr(get_prompt_description(Unwrap(name))),
                                      messages |->
                                        JArr(<<McpMessage(Unwrap(composed).text)>>)])),
                             Unwrap(composed).calls)

\* handle_prompts_get as it would be were the prompt name validated before the check of self.adi
handle_prompts_get_name_first(engine, params, env) ==
    IF IsNone(params)
    THEN Handled(Err(JsonRpcError(INVALID_PARAMS, "Missing params")), <<>>)
    ELSE LET name == AsStr(JGet(Unwrap(params), "name"))
             arguments == UnwrapOr(JGet(Unwrap(params), "arguments"), EmptyObj)
         IN  IF IsNone(name)
             THEN Handled(Err(JsonRpcError(INVALID_PARAMS, "Missing prompt name")), <<>>)
             ELSE IF get_prompt_description(Unwrap(name)) = "Prompt"
             THEN Handled(Err(JsonRpcError(INVALID_PARAMS,
                              "Unknown prompt: " \o Unwrap(name))), <<>>)
             ELSE IF IsNone(engine)
             THEN Handled(Err(JsonRpcError(INTERNAL_ERROR, "ADI not initialized")), <<>>)
             ELSE LET composed == ComposePrompt(Unwrap(engine), Unwrap(name), arguments, env)
                  IN  Handled(
                             Ok(JObj([description |->
                                        JStr(get_prompt_description(Unwrap(name))),
                                      messages |->
                                        JArr(<<McpMessage(Unwrap(composed).text)>>)])),
                             Unwrap(composed).calls)

handle_prompts_get(engine, params, env) ==
    IF IsNone(params)
    THEN Handled(Err(JsonRpcError(INVALID_PARAMS, "Missing params")), <<>>)
    ELSE LET name == AsStr(JGet(Unwrap(params), "name"))
             arguments == UnwrapOr(JGet(Unwrap(params), "arguments"), EmptyObj)
         IN  IF IsNone(name)
             THEN Handled(Err(JsonRpcError(INVALID_PARAMS, "Missing prompt name")), <<>>)
             ELSE IF IsNone(engine)
             THEN Handled(Err(JsonRpcError(INTERNAL_ERROR, "ADI not initialized")), <<>>)
             ELSE LET composed == ComposePrompt(Unwrap(engine), Unwrap(name), arguments, env)
                  IN  IF IsNone(composed)
                      THEN Handled(Err(JsonRpcError(INVALID_PARAMS,
                                       "Unknown prompt: " \o Unwrap(name))), <<>>)
                      ELSE Handled(
                             Ok(JObj([description |->
                                        JStr(get_prompt_description(Unwrap(name))),
                                      messages |->
                                        JArr(<<McpMessage(Unwrap(composed).text)>>)])),
                             Unwrap(composed).calls)

----------------------------------------------------------------------------
(* Completion *)

MAX_COMPLETIONS == 20

FocusValues == <<"security", "performance", "style", "bugs", "general">>
DirectionValues == <<"callers", "callees", "both">>

\* A variant that keeps the strings that start with the value
FilterStartingWith(strs, value) == SelectSeq(strs, LAMBDA str : StartsWith(str, value))

\* iter().filter(|s| s.contains(value))
FilterContaining(strs, value) == SelectSeq(strs, LAMBDA str : Contains(str, value))

CompletionResult(values) ==
    JObj([completion |-> JObj([values |-> JArr(values), hasMore |-> JBool(FALSE)])])

\* Complete as it would be were the paths truncated before they are filtered
CompleteTruncatingFirst(ref_type, argument_name, argument_value, env) ==
    CASE (ref_type = "ref/prompt" /\ argument_name = "file_path") \/ ref_type = "ref/resource" ->
           LET tree == EngineCall(env, "get_tree")
               paths == [i \in 1..Len(Unwrap(tree).files) |-> Unwrap(tree).files[i].path]
           IN  [values |-> IF IsSome(tree)
                           THEN FilterContaining(Take(paths, MAX_COMPLETIONS), argument_value)
                           ELSE <<>>,
                calls |-> <<EnvCall(env, "get_tree", <<>>)>>]
      [] ref_type = "ref/prompt" /\ argument_name \in {"symbol_name", "target"} ->
           LET symbols == EngineCall(env, "search_symbols") IN
           IF argument_value # ""
           THEN [values |-> IF IsSome(symbols)
                            THEN [i \in 1..Len(Unwrap(symbols)) |-> Unwrap(symbols)[i].name]
                            ELSE <<>>,
                 calls |-> <<EnvCall(env, "search_symbols", <<argument_value, MAX_COMPLETIONS>>)>>]
           ELSE [values |-> <<>>, calls |-> <<>>]
      [] ref_type = "ref/prompt" /\ argument_name = "focus" ->
           [values |-> FilterContaining(FocusValues, argument_value), calls |-> <<>>]
      [] ref_type = "ref/prompt" /\ argument_name = "direction" ->
           [values |-> FilterContaining(DirectionValues, argument_value), calls |-> <<>>]
      [] OTHER -> [values |-> <<>>, calls |-> <<>>]

\* lines 1052-1088: the match on (ref_type, argument_name), with the engine present
Complete(ref_type, argument_name, argument_value, env) ==
    CASE (ref_type = "ref/prompt" /\ argument_name = "file_path") \/ ref_type = "ref/resource" ->
           LET tree == EngineCall(env, "get_tree")
               paths == [i \in 1..Len(Unwrap(tree).files) |-> Unwrap(tree).files[i].path]
           IN  [values |-> IF IsSome(tree)
                           THEN Take(FilterContaining(paths, argument_value), MAX_COMPLETIONS)
                           ELSE <<>>,
                calls |-> <<EnvCall(env, "get_tree", <<>>)>>]
      [] ref_type = "ref/prompt" /\ argument_name \in {"symbol_name", "target"} ->
           LET symbols == EngineCall(env, "search_symbols") IN
           IF argument_value # ""
           THEN [values |-> IF IsSome(symbols)
                            THEN [i \in 1..Len(Unwrap(symbols)) |-> Unwrap(symbols)[i].name]
                            ELSE <<>>,
                 calls |-> <<EnvCall(env, "search_symbols", <<argument_value, MAX_COMPLETIONS>>)>>]
           ELSE [values |-> <<>>, calls |-> <<>>]
      [] ref_type = "ref/prompt" /\ argument_name = "focus" ->
           [values |-> FilterContaining(FocusValues, argument_value), calls |-> <<>>]
      [] ref_type = "ref/prompt" /\ argument_name = "direction" ->
           [values |-> FilterContaining(DirectionValues, argument_value), calls |-> <<>>]
      [] OTHER -> [values |-> <<>>, calls |-> <<>>]

\* A variant that looks for the engine before it looks at the params
handle_completion_engine_first(engine, params, env) ==
    IF IsNone(engine)
    THEN Handled(Ok(CompletionResult(<<>>)), <<>>)
    ELSE IF IsNone(params)
    THEN Handled(Err(JsonRpcError(INVALID_PARAMS, "Missing params")), <<>>)
    ELSE LET ref_obj == JGet(Unwrap(params), "ref")
             argument == JGet(Unwrap(params), "argument")
             ref_type == UnwrapOr(AsStr(OptGet(ref_obj, "type")), "")
             argument_name == UnwrapOr(AsStr(OptGet(argument, "name")), "")
             argument_value == UnwrapOr(AsStr(OptGet(argument, "value")), "")
             completions == Complete(ref_type, argument_name, argument_value, env)
         IN  IF IsNone(ref_obj)
             THEN Handled(Err(JsonRpcError(INVALID_PARAMS, "Missing ref parameter")), <<>>)
             ELSE Handled(Ok(CompletionResult(
                               [i \in 1..Len(completions.values)
                                  |-> JStr(completions.values[i])])),
                          completions.calls)

\* lines 1030-1050, the match, and lines 1090-1095
handle_completion(engine, params, env) ==
    IF IsNone(params)
    THEN Handled(Err(JsonRpcError(INVALID_PARAMS, "Missing params")), <<>>)
    ELSE LET ref_obj == JGet(Unwrap(params), "ref")
             argument == JGet(Unwrap(params), "argument")
             ref_type == UnwrapOr(AsStr(OptGet(ref_obj, "type")), "")
             argument_name == UnwrapOr(AsStr(OptGet(argument, "name")), "")
             argument_value == UnwrapOr(AsStr(OptGet(argument, "value")), "")
             completions == Complete(ref_type, argument_name, argument_value, env)
         IN  IF IsNone(ref_obj)
             THEN Handled(Err(JsonRpcError(INVALID_PARAMS, "Missing ref parameter")), <<>>)
             ELSE IF IsNone(engine)
             THEN Handled(Ok(CompletionResult(<<>>)), <<>>)
             ELSE Handled(Ok(CompletionResult(
                               [i \in 1..Len(completions.values)
                                  |-> JStr(completions.values[i])])),
                          completions.calls)

----------------------------------------------------------------------------
(* McpServer::handle_request *)

Methods == {"initialize", "initialized", "ping", "tools/list", "tools/call",
            "resources/list", "resources/read", "resources/subscribe",
            "resources/unsubscribe", "resources/templates/list", "prompts/list",
            "prompts/get", "completion/complete"}

\* ResponseId as it would be were the id field a String
ResponseIdAsString(req) ==
    IF IsSome(req.id) /\ Unwrap(req.id).t = "num"
    THEN JStr(ToString(Unwrap(req.id).n))
    ELSE UnwrapOr(req.id, JNull)

\* line 104
ResponseId(req) == UnwrapOr(req.id, JNull)

\* JsonRpcResponse as it would be were result serialized as null beside an error
JsonRpcResponseWithNullResult(id, result) ==
    IF result.ok
    THEN [jsonrpc |-> "2.0", id |-> id, result |-> Some(result.value), error |-> None]
    ELSE [jsonrpc |-> "2.0", id |-> id, result |-> Some(JNull), error |-> Some(result.error)]

\* lines 137-150
JsonRpcResponse(id, result) ==
    IF result.ok
    THEN [jsonrpc |-> "2.0", id |-> id, result |-> Some(result.value), error |-> None]
    ELSE [jsonrpc |-> "2.0", id |-> id, result |-> None, error |-> Some(result.error)]

\* MethodNotFound as it would be with the code of an invalid request
MethodNotFoundAsInvalidRequest(method) ==
    Err(JsonRpcError(-32600, "Method not found: " \o method))

\* lines 130-134
MethodNotFound(method) == Err(JsonRpcError(METHOD_NOT_FOUND, "Method not found: " \o method))

\* the Display of the serde_json::Error
SERDE_ERROR == "serde_json::Error"

\* lines 1188-1197
ParseErrorResponse ==
    [jsonrpc |-> "2.0", id |-> JNull, result |-> None,
     error |-> Some(JsonRpcError(PARSE_ERROR, "Parse error: " \o SERDE_ERROR))]

----------------------------------------------------------------------------
(* The inputs: what the client writes to stdin and what the engine answers  *)

MaxLines == 3

Obj(rec) == Some(JObj(rec))

RequestIds == {None, Some(JNull), Some(JNum(7)), Some(JStr("7")), Some(JLiteral(BEYOND_U64))}

\* The text of a request envelope, as the JSON document it holds
Envelope(id, method, params) ==
    JsonLine(JObj([k \in {"jsonrpc", "method"}
                         \cup (IF IsSome(id) THEN {"id"} ELSE {})
                         \cup (IF IsSome(params) THEN {"params"} ELSE {})
                     |-> CASE k = "jsonrpc" -> JStr("2.0")
                           [] k = "method" -> JStr(method)
                           [] k = "id" -> Unwrap(id)
                           [] k = "params" -> Unwrap(params)]))

ToolCall(name, arguments) == Obj([name |-> JStr(name), arguments |-> JObj(arguments)])

ToolsCallParams ==
    { None, Obj(<<>>), Obj([arguments |-> EmptyObj]), Obj([name |-> JNum(3)]),
      Obj([name |-> JStr("status")]), ToolCall("bogus", <<>>),
      ToolCall("search", <<>>), ToolCall("search", [query |-> JStr("parse")]),
      ToolCall("search", [query |-> JStr("parse"), limit |-> JNum(0)]),
      ToolCall("search", [query |-> JStr("parse"), limit |-> JNum(5)]),
      ToolCall("search", [query |-> JStr("parse"), limit |-> JNum(1)]),
      ToolCall("search", [query |-> JStr("parse"), limit |-> JNum(100)]),
      ToolCall("search", [query |-> JStr("parse"), limit |-> JNum(101)]),
      ToolCall("search", [query |-> JStr("parse"), limit |-> JNum(500)]),
      ToolCall("search", [query |-> JStr("parse"), limit |-> JNum(-1)]),
      ToolCall("search", [query |-> JStr("parse"), limit |-> JFloat("2.5")]),
      ToolCall("search", [limit |-> JStr("5")]),
      ToolCall("search_symbols", <<>>),
      ToolCall("search_symbols", [query |-> JStr("main"), limit |-> JNum(500)]),
      ToolCall("search_files", [query |-> JStr("src")]),
      ToolCall("search_files", [query |-> JStr("src"), limit |-> JNum(0)]),
      ToolCall("get_file", <<>>), ToolCall("get_file", [path |-> JStr("src/a.rs")]),
      ToolCall("get_file", [path |-> JNum(3)]),
      ToolCall("get_tree", <<>>), ToolCall("index", <<>>), ToolCall("status", <<>>) }
    \cup UNION { { ToolCall(tool, <<>>), ToolCall(tool, [id |-> JNum(3)]),
                   ToolCall(tool, [id |-> JStr("3")]) }
                 : tool \in {"get_symbol", "get_callers", "get_callees", "get_symbol_usage"} }

SubscriptionUris == {"adi://status", "any string"}

UriParams ==
    { None, Obj(<<>>), Obj([uri |-> JNum(5)]) }
    \cup { Obj([uri |-> JStr(u)]) : u \in SubscriptionUris }

ResourcesReadParams ==
    { None, Obj(<<>>), Obj([uri |-> JNum(5)]) }
    \cup { Obj([uri |-> JStr(u)]) :
             u \in {"adi://status", "adi://tree", "adi://config", "adi://file/src/a.rs",
                    "adi://file/", "adi://symbol/12", "adi://symbol/-3", "adi://symbol/x",
                    "adi://symbol/", "adi://bogus", "adi://file", "any string",
                    "adi://symbol/+007", "adi://symbol/1.5",
                    "adi://symbol/99999999999999999999"} }

PromptGet(name, arguments) == Obj([name |-> JStr(name), arguments |-> JObj(arguments)])

PromptsGetParams ==
    { None, Obj(<<>>), Obj([name |-> JNum(5)]), PromptGet("bogus", <<>>),
      Obj([name |-> JStr("find_similar")]),
      PromptGet("code_review", [file_path |-> JStr("src/a.rs"), focus |-> JStr("security")]),
      PromptGet("explain_symbol", [symbol_name |-> JStr("main")]),
      PromptGet("find_similar", [description |-> JStr("error handling")]),
      PromptGet("analyze_dependencies", [target |-> JStr("main")]),
      PromptGet("analyze_dependencies", [target |-> JStr("main"), direction |-> JStr("callers")]),
      PromptGet("analyze_dependencies", [target |-> JStr("main"), direction |-> JStr("callees")]),
      PromptGet("summarize_file", [file_path |-> JStr("src/a.rs")]),
      PromptGet("refactor_suggestions", [target |-> JStr("main")]) }
    \cup { PromptGet(name, <<>>) :
             name \in {"code_review", "explain_symbol", "find_similar", "analyze_dependencies",
                       "summarize_file", "refactor_suggestions", "architecture_overview"} }

CompletionRequest(ref_type, name, value) ==
    Obj([ref |-> JObj([type |-> JStr(ref_type), name |-> JStr("code_review")]),
         argument |-> JObj([name |-> JStr(name), value |-> JStr(value)])])

CompletionParams ==
    { None, Obj(<<>>), Obj([argument |-> JObj([name |-> JStr("focus"), value |-> JStr("sec")])]),
      Obj([ref |-> JNum(5)]), Obj([ref |-> EmptyObj]),
      Obj([ref |-> JObj([type |-> JStr("ref/prompt")])]),
      CompletionRequest("ref/other", "focus", "sec"),
      CompletionRequest("ref/prompt", "description", "x"),
      CompletionRequest("ref/resource", "uri", "a.rs"),
      CompletionRequest("ref/resource", "focus", "") }
    \cup { CompletionRequest("ref/prompt", "focus", v) : v \in {"sec", "", "e", "zzz"} }
    \cup { CompletionRequest("ref/prompt", "direction", v) : v \in {"call", "", "b", "zzz"} }
    \cup { CompletionRequest("ref/prompt", "file_path", v) : v \in {"src", "", "zzz", "a", "f10"} }
    \cup { CompletionRequest("ref/prompt", n, v) :
             n \in {"symbol_name", "target"}, v \in {"ma", ""} }

InitializeParams ==
    { None, Obj(<<>>), Obj([rootUri |-> JNum(5)]), Obj([rootUri |-> JStr("/a")]),
      Obj([rootUri |-> JStr("file:///a")]), Obj([rootUri |-> JStr("file:///b")]) }

AnyParams == { None, Obj(<<>>), Obj([cursor |-> JStr("c")]) }

UnknownMethods == {"nonexistent", "unknown/method", "tools/calls"}

ParamsOf(method) ==
    CASE method = "initialize" -> InitializeParams
      [] method = "tools/call" -> ToolsCallParams
      [] method = "resources/read" -> ResourcesReadParams
      [] method \in {"resources/subscribe", "resources/unsubscribe"} -> UriParams
      [] method = "prompts/get" -> PromptsGetParams
      [] method = "completion/complete" -> CompletionParams
      [] OTHER -> AnyParams

RequestLines ==
    { Envelope(id, m, p) : id \in RequestIds, m \in Methods \cup UnknownMethods, p \in {None} }
    \cup UNION { { Envelope(id, m, p) : id \in RequestIds, p \in ParamsOf(m) }
                 : m \in Methods \cup UnknownMethods }

BlankLines == { TextLine(""), TextLine(" "), TextLine(" \t ") }

\* Lines that are no request envelope: no JSON, JSON that is no object, and
\* objects lacking a string jsonrpc or a string method
UndecodableLines ==
    { TextLine("{not json"), TextLine(" ping"),
      JsonLine(JNum(5)), JsonLine(EmptyObj),
      JsonLine(JObj([id |-> JNum(7), method |-> JStr("ping")])),
      JsonLine(JObj([jsonrpc |-> JStr("2.0"), id |-> JNum(7)])),
      JsonLine(JObj([jsonrpc |-> JStr("2.0"), id |-> JStr("7"), method |-> JNum(3)])),
      JsonLine(JObj([jsonrpc |-> JNum(2), id |-> JNum(7), method |-> JStr("ping")])) }

InputLines == BlankLines \cup UndecodableLines \cup RequestLines

File(path, language, symbols) == [path |-> path, language |-> language, symbols |-> symbols]

Symbol(id, name, file_path, signature, doc_comment) ==
    [id |-> id, name |-> name, kind |-> "function", file_path |-> file_path,
     signature |-> signature, doc_comment |-> doc_comment]

Trees ==
    { <<>>,
      << File("src/a.rs", "rust", 2), File("src/b.py", "python", 0),
         File("Makefile", "unknown", 0) >> }

SymbolLists ==
    { <<>>,
      << Symbol(1, "main", "src/a.rs", Some("fn main()"), Some("Main entry point")),
         Symbol(2, "main_loop", "src/a.rs", None, None),
         Symbol(3, "domain", "src/b.py", None, None),
         Symbol(4, "remain", "src/b.py", None, None) >> }

Progress == [files_processed |-> 3, symbols_indexed |-> 4, errors |-> <<"e1", "e2">>]

Env(fail, populated, fs_ok) ==
    [fail |-> fail,
     tree |-> IF populated THEN CHOOSE t \in Trees : Len(t) > 0 ELSE <<>>,
     symbols |-> IF populated THEN CHOOSE l \in SymbolLists : Len(l) > 0 ELSE <<>>,
     progress |-> IF populated THEN Progress
                  ELSE [files_processed |-> 0, symbols_indexed |-> 0, errors |-> <<>>],
     language |-> "rust",
     fs_ok |-> fs_ok]

\* The engine answers of one request: all succeed, all fail, or one lookup fails
FailSets == { {}, EngineOps, {"get_symbol_usage"}, {"find_symbols_by_name"}, {"get_file"} }

Envs == { Env(fail, populated, fs_ok) :
            fail \in FailSets, populated \in BOOLEAN, fs_ok \in BOOLEAN }

\* With every call succeeding or every call failing only
PlainEnvs == { Env(fail, TRUE, TRUE) : fail \in {{}, EngineOps} }

\* The size of a file tree that exceeds both caps, of listing and of completion
MaxTreeFiles == 102

\* A file tree of MaxTreeFiles files
LargeTree == [i \in 1..MaxTreeFiles |-> File("gen/f" \o ToString(i) \o ".rs", "rust", 1)]

TreeEnvs ==
    { Env(fail, populated, TRUE) : fail \in {{}, EngineOps}, populated \in BOOLEAN }
    \cup { [Env({}, TRUE, TRUE) EXCEPT !.tree = LargeTree] }

----------------------------------------------------------------------------
(* main: the transport loop, lines 1176-1212 *)

Init ==
    /\ adi = None
    /\ project_path = "."
    /\ subscribed_resources = {}
    /\ pc = "read"
    /\ line = None
    /\ lock = FALSE
    /\ request = None
    /\ response = None
    /\ engine_calls = <<>>
    /\ nread = 0
    /\ nonblank = 0
    /\ stdout = <<>>
    /\ flushed = 0

\* WriteLine as it would be were a request without id treated as a notification
WriteLineUnlessNotification(out, line_no) ==
    IF IsSome(request) /\ IsNone(Unwrap(request).id) THEN out ELSE Append(out, line_no)

\* writeln!(stdout, "{}", json): the line joins stdout, tagged with the input line it answers
WriteLine(out, line_no) == Append(out, line_no)

\* Flush as it would be were stdout left to its buffer
FlushNothing(out) == flushed

\* stdout.flush()
Flush(out) == Len(out)

\* lines 1176-1181: a line is read; a blank one is skipped
SkipBlankLine ==
    /\ pc = "read"
    /\ nread < MaxLines
    /\ \E l \in InputLines : IsBlank(l)
    /\ nread' = nread + 1
    /\ UNCHANGED <<session, pc, line, lock, request, response, engine_calls, nonblank,
                   stdout, flushed>>

\* ParseError as it would be were the session lock taken before the line is decoded
ParseErrorUnderLock ==
    /\ pc = "read"
    /\ nread < MaxLines
    /\ \E l \in InputLines :
         /\ ~IsBlank(l)
         /\ IsNone(DecodeRequest(l))
         /\ line' = Some(l)
    /\ nread' = nread + 1
    /\ nonblank' = nonblank + 1
    /\ response' = Some(ParseErrorResponse)
    /\ lock' = TRUE
    /\ pc' = "parse_error"
    /\ UNCHANGED <<session, request, engine_calls, stdout, flushed>>

\* lines 1185-1197: the line does not decode; the parse error response is built
ParseError ==
    /\ pc = "read"
    /\ nread < MaxLines
    /\ \E l \in InputLines :
         /\ ~IsBlank(l)
         /\ IsNone(DecodeRequest(l))
         /\ line' = Some(l)
    /\ nread' = nread + 1
    /\ nonblank' = nonblank + 1
    /\ response' = Some(ParseErrorResponse)
    /\ pc' = "parse_error"
    /\ UNCHANGED <<session, lock, request, engine_calls, stdout, flushed>>

\* lines 1198-1201: the parse error response is written and flushed
WriteParseError ==
    /\ pc = "parse_error"
    /\ stdout' = WriteLine(stdout, nonblank)
    /\ flushed' = Flush(stdout')
    /\ line' = None
    /\ response' = None
    /\ pc' = "read"
    /\ UNCHANGED <<session, lock, request, engine_calls, nread, nonblank>>

\* lines 1185-1186: the line decodes as a request
ReceiveRequest ==
    /\ pc = "read"
    /\ nread < MaxLines
    /\ \E l \in InputLines :
         /\ ~IsBlank(l)
         /\ IsSome(DecodeRequest(l))
         /\ line' = Some(l)
         /\ request' = DecodeRequest(l)
    /\ nread' = nread + 1
    /\ nonblank' = nonblank + 1
    /\ pc' = "lock"
    /\ UNCHANGED <<session, lock, response, engine_calls, stdout, flushed>>

\* line 1205: server.lock().await returns once the mutex is free
AcquireLock ==
    /\ pc = "lock"
    /\ ~lock
    /\ lock' = TRUE
    /\ pc' = "dispatch"
    /\ UNCHANGED <<session, line, request, response, engine_calls, nread, nonblank, stdout,
                   flushed>>

\* WriteResponse as it would be were an error response to end the loop
WriteResponseFatalOnError ==
    /\ pc = "respond"
    /\ stdout' = WriteLine(stdout, nonblank)
    /\ flushed' = Flush(stdout')
    /\ lock' = FALSE
    /\ line' = None
    /\ request' = None
    /\ response' = None
    /\ engine_calls' = <<>>
    /\ pc' = IF IsSome(Unwrap(response).error) THEN "exit" ELSE "read"
    /\ UNCHANGED <<session, nread, nonblank>>

\* lines 1208-1212: the response is written and flushed; the guard dies with the iteration
WriteResponse ==
    /\ pc = "respond"
    /\ stdout' = WriteLine(stdout, nonblank)
    /\ flushed' = Flush(stdout')
    /\ lock' = FALSE
    /\ line' = None
    /\ request' = None
    /\ response' = None
    /\ engine_calls' = <<>>
    /\ pc' = "read"
    /\ UNCHANGED <<session, nread, nonblank>>

\* reader.lines() ends: main returns
Eof ==
    /\ pc = "read"
    /\ pc' = "exit"
    /\ UNCHANGED <<session, line, lock, request, response, engine_calls, nread, nonblank,
                   stdout, flushed>>

----------------------------------------------------------------------------
(* McpServer::handle_request, lines 103-151: one action for each arm *)

Dispatching(method) == pc = "dispatch" /\ Unwrap(request).method = method

\* The handler returned: the response is built from its Result
Respond(handled) ==
    /\ response' = Some(JsonRpcResponse(ResponseId(Unwrap(request)), handled.result))
    /\ engine_calls' = handled.calls
    /\ pc' = "respond"
    /\ UNCHANGED <<line, lock, request, nread, nonblank, stdout, flushed>>

\* HandleInitialize as it would be were the guard dropped across the await of Adi::open
HandleInitializeUnlocked ==
    /\ Dispatching("initialize")
    /\ project_path' = ResolveProjectPath(project_path, Unwrap(request).params)
    /\ pc' = "open"
    /\ lock' = FALSE
    /\ UNCHANGED <<adi, subscribed_resources, line, request, response, engine_calls,
                   nread, nonblank, stdout, flushed>>

\* lines 154-159, up to the await of Adi::open
HandleInitialize ==
    /\ Dispatching("initialize")
    /\ project_path' = ResolveProjectPath(project_path, Unwrap(request).params)
    /\ pc' = "open"
    /\ UNCHANGED <<adi, subscribed_resources, line, lock, request, response, engine_calls,
                   nread, nonblank, stdout, flushed>>

\* EngineOpened as it would be were a newly opened engine to start with no subscriptions
EngineOpenedClearing ==
    /\ pc = "open"
    /\ \E open_ok \in BOOLEAN :
         /\ adi' = AfterOpen(adi, project_path, open_ok)
         /\ subscribed_resources' = IF open_ok THEN {} ELSE subscribed_resources
         /\ Respond(Handled(handle_initialize_result(open_ok),
                            <<Call("open", <<project_path>>, open_ok)>>))
    /\ UNCHANGED project_path

\* lines 161-190: Adi::open returned
EngineOpened ==
    /\ pc = "open"
    /\ \E open_ok \in BOOLEAN :
         /\ adi' = AfterOpen(adi, project_path, open_ok)
         /\ Respond(Handled(handle_initialize_result(open_ok),
                            <<Call("open", <<project_path>>, open_ok)>>))
    /\ UNCHANGED <<project_path, subscribed_resources>>

HandleInitialized ==
    /\ Dispatching("initialized")
    /\ Respond(Handled(Ok(EmptyObj), <<>>))
    /\ UNCHANGED session

\* HandlePing as it would be were ping to reset the session
HandlePingResetting ==
    /\ Dispatching("ping")
    /\ Respond(Handled(Ok(EmptyObj), <<>>))
    /\ adi' = None
    /\ subscribed_resources' = {}
    /\ UNCHANGED project_path

HandlePing ==
    /\ Dispatching("ping")
    /\ Respond(Handled(Ok(EmptyObj), <<>>))
    /\ UNCHANGED session

HandleToolsList ==
    /\ Dispatching("tools/list")
    /\ Respond(handle_tools_list)
    /\ UNCHANGED session

HandleToolsCall ==
    /\ Dispatching("tools/call")
    /\ \E env \in PlainEnvs : Respond(handle_tools_call(adi, Unwrap(request).params, env))
    /\ UNCHANGED session

HandleResourcesList ==
    /\ Dispatching("resources/list")
    /\ \E env \in TreeEnvs : Respond(handle_resources_list(adi, Unwrap(request).params, env))
    /\ UNCHANGED session

HandleResourcesRead ==
    /\ Dispatching("resources/read")
    /\ \E env \in Envs : Respond(handle_resources_read(adi, Unwrap(request).params, env))
    /\ UNCHANGED session

HandleResourcesSubscribe ==
    /\ Dispatching("resources/subscribe")
    /\ subscribed_resources' = SubscribeSet(subscribed_resources, Unwrap(request).params)
    /\ Respond(Handled(handle_resources_subscribe(Unwrap(request).params), <<>>))
    /\ UNCHANGED <<adi, project_path>>

HandleResourcesUnsubscribe ==
    /\ Dispatching("resources/unsubscribe")
    /\ subscribed_resources' = UnsubscribeSet(subscribed_resources, Unwrap(request).params)
    /\ Respond(Handled(handle_resources_unsubscribe(Unwrap(request).params), <<>>))
    /\ UNCHANGED <<adi, project_path>>

HandleResourceTemplatesList ==
    /\ Dispatching("resources/templates/list")
    /\ Respond(handle_resource_templates_list)
    /\ UNCHANGED session

HandlePromptsList ==
    /\ Dispatching("prompts/list")
    /\ Respond(handle_prompts_list(Unwrap(request).params))
    /\ UNCHANGED session

HandlePromptsGet ==
    /\ Dispatching("prompts/get")
    /\ \E env \in Envs : Respond(handle_prompts_get(adi, Unwrap(request).params, env))
    /\ UNCHANGED session

HandleCompletion ==
    /\ Dispatching("completion/complete")
    /\ \E env \in TreeEnvs : Respond(handle_completion(adi, Unwrap(request).params, env))
    /\ UNCHANGED session

\* the wildcard arm
HandleUnknownMethod ==
    /\ pc = "dispatch"
    /\ Unwrap(request).method \notin Methods
    /\ Respond(Handled(MethodNotFound(Unwrap(request).method), <<>>))
    /\ UNCHANGED session

Next ==
    \/ SkipBlankLine
    \/ ParseError
    \/ WriteParseError
    \/ ReceiveRequest
    \/ AcquireLock
    \/ HandleInitialize
    \/ EngineOpened
    \/ HandleInitialized
    \/ HandlePing
    \/ HandleToolsList
    \/ HandleToolsCall
    \/ HandleResourcesList
    \/ HandleResourcesRead
    \/ HandleResourcesSubscribe
    \/ HandleResourcesUnsubscribe
    \/ HandleResourceTemplatesList
    \/ HandlePromptsList
    \/ HandlePromptsGet
    \/ HandleCompletion
    \/ HandleUnknownMethod
    \/ WriteResponse
    \/ Eof

Spec == Init /\ [][Next]_vars

\* The steps between the reading of a non-blank line and the writing of its
\* response: everything the loop body does after reader.lines() has yielded
Answering ==
    \/ WriteParseError
    \/ AcquireLock
    \/ HandleInitialize
    \/ EngineOpened
    \/ HandleInitialized
    \/ HandlePing
    \/ HandleToolsList
    \/ HandleToolsCall
    \/ HandleResourcesList
    \/ HandleResourcesRead
    \/ HandleResourcesSubscribe
    \/ HandleResourcesUnsubscribe
    \/ HandleResourceTemplatesList
    \/ HandlePromptsList
    \/ HandlePromptsGet
    \/ HandleCompletion
    \/ HandleUnknownMethod
    \/ WriteResponse

\* The loop body is straight-line code of the one task that main runs: once a
\* line is read, the task goes on to the next statement, the mutex it awaits
\* is free (no other task holds it) and the engine's futures complete. What
\* stdin delivers, and when it ends, is left to the environment.
FairSpec == Spec /\ WF_vars(Answering)

----------------------------------------------------------------------------
(* Properties of the transport: sections 2 and 3 of the specification *)

\* The id member the current input line carries, None when it has none
SentId == JGet(Unwrap(line).doc, "id")

\* The method of the request being handled
CurrentMethod == Unwrap(request).method

\* The JSON type of a value: integers and floats are both numbers
JsonType(v) == IF v.t \in {"num", "float", "literal"} THEN "number" ELSE v.t

\* C1: the response to a request carries the id the request carried, with its
\* JSON type and value unchanged (a number stays that number, a string that
\* string); a request without id is answered with an id member that is null.
\* The id member is always present. The id the line carried is echoed as
\* well, an integer beyond u64 excepted: the request holds it as a float.
C1_IdEchoed ==
    pc = "respond" =>
        /\ "id" \in DOMAIN Unwrap(response)
        /\ IsSome(Unwrap(request).id) =>
              /\ Unwrap(response).id = Unwrap(Unwrap(request).id)
              /\ JsonType(Unwrap(response).id) = JsonType(Unwrap(SentId))
        /\ IsNone(Unwrap(request).id) => Unwrap(response).id = JNull
        /\ IsNone(SentId) => Unwrap(response).id = JNull
        /\ (IsSome(SentId) /\ Unwrap(SentId).t # "literal") =>
              Unwrap(response).id = Unwrap(SentId)

\* The second non-blank line, a failing request with a numeric id, is answered
C1_Witness ==
    /\ pc = "respond"
    /\ SentId = Some(JNum(7))
    /\ IsSome(Unwrap(response).error)
    /\ Unwrap(response).id = JNum(7)
    /\ nonblank > 1

\* C2: every response, the parse error response included, holds exactly one of
\* result and error: result on success, error on failure, never both, never
\* neither.
C2_ResultXorError ==
    IsSome(response) =>
        \/ IsSome(Unwrap(response).result) /\ IsNone(Unwrap(response).error)
        \/ IsNone(Unwrap(response).result) /\ IsSome(Unwrap(response).error)

\* A handler failed with invalid params: the response holds error and no result
C2_Witness ==
    /\ pc = "respond"
    /\ IsSome(Unwrap(response).error)
    /\ Unwrap(Unwrap(response).error).code = INVALID_PARAMS
    /\ IsNone(Unwrap(response).result)

\* C3: a blank line produces no output line; every other line read produces
\* exactly one, so the output lines number the non-blank lines read: all of
\* them between two reads, all but the one in hand while a line is handled.
C3_OneOutputPerNonBlankLine ==
    /\ pc \in {"read", "exit"} => Len(stdout) = nonblank
    /\ pc \notin {"read", "exit"} => Len(stdout) = nonblank - 1
    /\ nonblank <= nread

\* Three lines were read, two of them blank, and one line was written
C3_Witness ==
    /\ pc = "read"
    /\ nread = 3
    /\ nonblank = 1
    /\ Len(stdout) = 1

\* What the specification calls a JSON-RPC request envelope: a JSON object
\* with a string jsonrpc and a string method
IsRequestEnvelope(l) ==
    /\ ~IsText(l)
    /\ l.doc.t = "obj"
    /\ {"jsonrpc", "method"} \subseteq DOMAIN l.doc.o
    /\ l.doc.o["jsonrpc"].t = "str"
    /\ l.doc.o["method"].t = "str"

\* C4: a non-blank line that does not decode as a request envelope is answered
\* with id null and error code -32700 (and no result), and the request router
\* is never entered for it: no request is held, the session lock is not taken,
\* no engine call is made.
C4_ParseErrorBeforeRouting ==
    (IsSome(line) /\ ~IsRequestEnvelope(Unwrap(line))) =>
        /\ pc = "parse_error"
        /\ IsNone(request)
        /\ ~lock
        /\ engine_calls = <<>>
        /\ IsSome(response)
        /\ Unwrap(response).id = JNull
        /\ IsNone(Unwrap(response).result)
        /\ IsSome(Unwrap(response).error)
        /\ Unwrap(Unwrap(response).error).code = -32700

\* A JSON object with id and method but no jsonrpc is answered with the parse error
C4_Witness ==
    /\ pc = "parse_error"
    /\ ~IsText(Unwrap(line))
    /\ Unwrap(line).doc.t = "obj"
    /\ "id" \in DOMAIN Unwrap(line).doc.o
    /\ "method" \in DOMAIN Unwrap(line).doc.o
    /\ Unwrap(response).id = JNull

\* C5: requests are handled one at a time in the order read; the k-th output
\* line answers the k-th non-blank input line, and whenever the next line can
\* be read every response so far is written and flushed and none is pending.
C5_InOrderFlushedBeforeNextRead ==
    /\ \A k \in 1..Len(stdout) : stdout[k] = k
    /\ pc = "read" =>
          /\ flushed = nonblank
          /\ Len(stdout) = flushed
          /\ IsNone(response)
          /\ IsNone(request)

\* Three non-blank lines were answered in turn and a fourth can be read
C5_Witness ==
    /\ pc = "read"
    /\ stdout = <<1, 2, 3>>
    /\ flushed = 3

----------------------------------------------------------------------------
(* Properties of the session: sections 3 and 7 of the specification *)

\* A request is being handled: handle_request was entered and its response is not yet written
Handling == pc \in {"dispatch", "open", "respond"}

\* The engine call the handler of the current request made last
LastCall == engine_calls[Len(engine_calls)]

\* C6: the session is touched only under the one exclusive lock, which is held
\* for the whole handling of a request, the suspension while Adi::open is
\* awaited included, and by nobody otherwise. At most one request is being
\* handled; the session changes only in steps that start and end under the
\* lock, and a request enters its handler only when no update is under way.
C6_SessionUnderLock ==
    /\ [](Handling <=> lock)
    /\ [](Handling => IsSome(line) /\ request = DecodeRequest(Unwrap(line)))
    /\ [][(session' # session) => (lock /\ lock' /\ Handling /\ request' = request)]_vars
    /\ [][(pc' = "dispatch") => (pc = "lock" /\ ~lock /\ session' = session)]_vars

\* initialize is suspended in Adi::open: the new project_path is set, the
\* outcome of the open is not in yet, and the lock is held
C6_Witness ==
    /\ pc = "open"
    /\ lock
    /\ project_path = "/a"
    /\ IsNone(adi)
    /\ IsNone(response)

\* C7: once the engine handle is present it is present in every later state:
\* no step, a later initialize whose Adi::open fails included, makes it absent.
C7_ReadyStaysReady == [][IsSome(adi) => IsSome(adi')]_vars

\* A later initialize failed to open another root and the engine of the
\* earlier root is still there
C7_Witness ==
    /\ pc = "respond"
    /\ CurrentMethod = "initialize"
    /\ engine_calls = <<Call("open", <<project_path>>, FALSE)>>
    /\ IsSome(adi)
    /\ Unwrap(adi).root # project_path

\* C8: the engine handle is absent at start, and it becomes present, or
\* another one, only in the step in which the Adi::open of an initialize
\* request succeeds: no other method and no failed open sets it.
C8_EngineOnlyFromSuccessfulOpen ==
    /\ IsNone(adi)
    /\ [][(adi' # adi) =>
            /\ pc = "open"
            /\ CurrentMethod = "initialize"
            /\ engine_calls' = <<Call("open", <<project_path>>, TRUE)>>
            /\ adi' = Some([root |-> project_path])]_vars

\* The engine is absent after an initialize whose open failed
C8_Witness ==
    /\ pc = "respond"
    /\ CurrentMethod = "initialize"
    /\ engine_calls = <<Call("open", <<project_path>>, FALSE)>>
    /\ IsNone(adi)
    /\ project_path = "/b"

\* The member k of the result of the current response, None when there is none
ResultMember(k) ==
    IF IsSome(Unwrap(response).result) THEN JGet(Unwrap(Unwrap(response).result), k) ELSE None

\* C9: the response to initialize is always a success: it has a result and no
\* error, and the result carries the protocol version, the tools, resources
\* and prompts capability flags and the server name and version, with or
\* without params or rootUri, whether Adi::open succeeded or failed.
C9_InitializeAlwaysSucceeds ==
    (pc = "respond" /\ CurrentMethod = "initialize") =>
        /\ IsNone(Unwrap(response).error)
        /\ IsSome(Unwrap(response).result)
        /\ ResultMember("protocolVersion") = Some(JStr("2024-11-05"))
        /\ OptGet(ResultMember("capabilities"), "tools")
              = Some(JObj([listChanged |-> JBool(FALSE)]))
        /\ OptGet(ResultMember("capabilities"), "resources")
              = Some(JObj([subscribe |-> JBool(TRUE), listChanged |-> JBool(TRUE)]))
        /\ OptGet(ResultMember("capabilities"), "prompts")
              = Some(JObj([listChanged |-> JBool(FALSE)]))
        /\ OptGet(ResultMember("serverInfo"), "name") = Some(JStr("adi-mcp"))
        /\ IsSome(AsStr(OptGet(ResultMember("serverInfo"), "version")))

\* initialize without params, Adi::open failed, and the response is a success
C9_Witness ==
    /\ pc = "respond"
    /\ CurrentMethod = "initialize"
    /\ IsNone(Unwrap(request).params)
    /\ LastCall.ok = FALSE
    /\ IsNone(adi)
    /\ IsSome(Unwrap(response).result)

\* The names of the entries of the array member k of the current result
CatalogNames(k, name_key) ==
    LET entries == Unwrap(ResultMember(k)).a IN
    [i \in 1..Len(entries) |-> Unwrap(AsStr(JGet(entries[i], name_key)))]

\* C10: tools/list, prompts/list and resources/templates/list succeed in every
\* session state, before initialize, after a failed and after a successful
\* one, and for any params, with the same catalog: eleven tools, seven
\* prompts, two URI templates; no engine call is made.
C10_DiscoveryAlwaysServed ==
    /\ (pc = "respond" /\ CurrentMethod = "tools/list") =>
          /\ IsNone(Unwrap(response).error)
          /\ engine_calls = <<>>
          /\ Unwrap(response).result = Some(JObj([tools |-> JArr(ToolCatalog)]))
          /\ Len(CatalogNames("tools", "name")) = 11
          /\ CatalogNames("tools", "name") =
                <<"search", "search_symbols", "search_files", "get_symbol", "get_file",
                  "get_callers", "get_callees", "get_symbol_usage", "get_tree", "index",
                  "status">>
    /\ (pc = "respond" /\ CurrentMethod = "prompts/list") =>
          /\ IsNone(Unwrap(response).error)
          /\ engine_calls = <<>>
          /\ Unwrap(response).result = Some(JObj([prompts |-> JArr(PromptCatalog)]))
          /\ Len(CatalogNames("prompts", "name")) = 7
          /\ CatalogNames("prompts", "name") =
                <<"code_review", "explain_symbol", "find_similar", "analyze_dependencies",
                  "summarize_file", "refactor_suggestions", "architecture_overview">>
    /\ (pc = "respond" /\ CurrentMethod = "resources/templates/list") =>
          /\ IsNone(Unwrap(response).error)
          /\ engine_calls = <<>>
          /\ Len(CatalogNames("resourceTemplates", "uriTemplate")) = 2
          /\ CatalogNames("resourceTemplates", "uriTemplate") =
                <<"adi://file/{path}", "adi://symbol/{id}">>

\* tools/list is served with params after an initialize that failed to open "/a"
C10_Witness ==
    /\ pc = "respond"
    /\ CurrentMethod = "tools/list"
    /\ IsNone(adi)
    /\ project_path = "/a"
    /\ IsSome(Unwrap(request).params)
    /\ IsSome(Unwrap(response).result)

----------------------------------------------------------------------------
(* Properties of tools/call and of the dispatcher: sections 4 and 7 *)

\* The params of the request being handled
CurrentParams == Unwrap(request).params

\* The response to the current request is the error with this code, and no result
FailedWith(code) ==
    /\ IsNone(Unwrap(response).result)
    /\ IsSome(Unwrap(response).error)
    /\ Unwrap(Unwrap(response).error).code = code

\* The message of the error of the current response
ErrorMessage == Unwrap(Unwrap(response).error).message

\* The response to a tools/call request is ready
ToolsCallDone == pc = "respond" /\ CurrentMethod = "tools/call"

\* The string name member of the params, None when there is none
ToolName == AsStr(OptGet(CurrentParams, "name"))

\* The arguments member of the params, None when there is none
ToolArguments == OptGet(CurrentParams, "arguments")

\* C11: while the engine is absent, before any initialize or after failed
\* ones only, a tools/call that names a tool, catalogued or not, is answered
\* with error -32603 and no engine operation is invoked.
C11_ToolsCallWithoutEngine ==
    (ToolsCallDone /\ IsNone(adi) /\ IsSome(ToolName)) =>
        /\ FailedWith(-32603)
        /\ engine_calls = <<>>

\* After an initialize that failed to open "/a", get_symbol with an id is refused
C11_Witness ==
    /\ ToolsCallDone
    /\ IsNone(adi)
    /\ project_path = "/a"
    /\ ToolName = Some("get_symbol")
    /\ OptGet(ToolArguments, "id") = Some(JNum(3))
    /\ FailedWith(-32603)

\* C12: tools/call without params, and tools/call whose params hold no string
\* name, are answered with error -32602, with the engine present or absent.
C12_ToolsCallWithoutName ==
    (ToolsCallDone /\ (IsNone(CurrentParams) \/ IsNone(ToolName))) =>
        /\ FailedWith(-32602)
        /\ engine_calls = <<>>

\* With the engine absent a tools/call without params is an invalid-params error
C12_Witness ==
    /\ ToolsCallDone
    /\ IsNone(adi)
    /\ IsNone(CurrentParams)
    /\ FailedWith(-32602)

\* The eleven tools of the catalog
CataloguedTools ==
    {"search", "search_symbols", "search_files", "get_symbol", "get_file", "get_callers",
     "get_callees", "get_symbol_usage", "get_tree", "index", "status"}

\* A tools/call naming a tool outside the catalog has been handled
UnknownToolCalled == ToolsCallDone /\ IsSome(ToolName) /\ Unwrap(ToolName) \notin CataloguedTools

\* C13 as amended: with the engine present, a tools/call whose name is none of
\* the eleven catalogued tools is answered with the invalid-params error
\* -32602 whose message names the tool, and the engine is not called.
C13_UnknownToolWithEngine ==
    (UnknownToolCalled /\ IsSome(adi)) =>
        /\ FailedWith(-32602)
        /\ Contains(ErrorMessage, Unwrap(ToolName))
        /\ engine_calls = <<>>

\* The tool "bogus" is called after a successful initialize
C13_Witness ==
    /\ UnknownToolCalled
    /\ IsSome(adi)
    /\ ToolName = Some("bogus")
    /\ ErrorMessage = "Unknown tool: bogus"

\* C13 as stated: a tools/call whose name is none of the eleven catalogued
\* tools is answered with -32602 and a message naming the tool, in any state.
C13_UnknownToolAnyState ==
    UnknownToolCalled =>
        /\ FailedWith(-32602)
        /\ Contains(ErrorMessage, Unwrap(ToolName))

\* The tools that take a symbol id, and the tools that take a query and a limit
IdTools == {"get_symbol", "get_callers", "get_callees", "get_symbol_usage"}
SearchTools == {"search", "search_symbols", "search_files"}

\* The arguments of the current tools/call hold an integer id, a string path
HasIntegerId ==
    IsSome(OptGet(ToolArguments, "id")) /\ Unwrap(OptGet(ToolArguments, "id")).t = "num"
HasStringPath ==
    IsSome(OptGet(ToolArguments, "path")) /\ Unwrap(OptGet(ToolArguments, "path")).t = "str"

\* The current tools/call names a tool that needs an identifier and gives none
IdentifierMissing ==
    /\ ToolsCallDone
    /\ IsSome(ToolName)
    /\ \/ Unwrap(ToolName) \in IdTools /\ ~HasIntegerId
       \/ Unwrap(ToolName) = "get_file" /\ ~HasStringPath

\* The current tools/call names one of the three search tools
SearchToolCalled == ToolsCallDone /\ IsSome(ToolName) /\ Unwrap(ToolName) \in SearchTools

\* C14 as amended: with the engine present, get_symbol, get_callers,
\* get_callees and get_symbol_usage without an integer id, and get_file
\* without a string path, are answered with -32602 and the engine is not
\* called; a search tool without query or limit is never an invalid-params
\* error: the engine is called with "" for the query and 10 for the limit,
\* and the response is an error only when that engine call failed.
C14_IdentifiersRequiredWithEngine ==
    /\ (IdentifierMissing /\ IsSome(adi)) =>
          /\ FailedWith(-32602)
          /\ engine_calls = <<>>
    /\ (SearchToolCalled /\ IsSome(adi)) =>
          /\ ~FailedWith(-32602)
          /\ Len(engine_calls) = 1
          /\ engine_calls[1].op = Unwrap(ToolName)
          /\ IsNone(OptGet(ToolArguments, "query")) => engine_calls[1].args[1] = ""
          /\ IsNone(OptGet(ToolArguments, "limit")) => engine_calls[1].args[2] = 10
          /\ IsSome(Unwrap(response).error) => (~engine_calls[1].ok /\ FailedWith(-32603))
          /\ engine_calls[1].ok => IsSome(Unwrap(response).result)

\* get_callers is called with the id "3", a string, after a successful initialize
C14_Witness ==
    /\ IdentifierMissing
    /\ IsSome(adi)
    /\ ToolName = Some("get_callers")
    /\ OptGet(ToolArguments, "id") = Some(JStr("3"))
    /\ FailedWith(-32602)

\* C14 as stated: in any session state a call that lacks its identifier is
\* answered with -32602 without an engine call, and a search tool without
\* query or limit is not an invalid-params error.
C14_IdentifiersRequiredAnyState ==
    /\ IdentifierMissing => (FailedWith(-32602) /\ engine_calls = <<>>)
    /\ SearchToolCalled => ~FailedWith(-32602)

\* The thirteen method names handle_request routes
CataloguedMethods ==
    {"initialize", "initialized", "ping", "tools/list", "tools/call", "resources/list",
     "resources/read", "resources/subscribe", "resources/unsubscribe",
     "resources/templates/list", "prompts/list", "prompts/get", "completion/complete"}

\* C15: a request whose method is none of the thirteen catalogued names is
\* answered with error -32601 in every session state; the response is fixed
\* by the request alone, no engine call is made, and the step that handles
\* it leaves engine, project_path and subscriptions as they were.
C15_UnknownMethod ==
    /\ []((pc = "respond" /\ CurrentMethod \notin CataloguedMethods) =>
            /\ FailedWith(-32601)
            /\ ErrorMessage = "Method not found: " \o CurrentMethod
            /\ engine_calls = <<>>)
    /\ [][(pc = "dispatch" /\ CurrentMethod \notin CataloguedMethods) =>
            (session' = session /\ pc' = "respond")]_vars

\* An unknown method is answered while the engine is present and a URI is subscribed
C15_Witness ==
    /\ pc = "respond"
    /\ CurrentMethod = "tools/calls"
    /\ IsSome(adi)
    /\ subscribed_resources = {"adi://status"}
    /\ FailedWith(-32601)

\* The search tool was called and reached the engine
SearchReachedEngine ==
    /\ ToolsCallDone
    /\ ToolName = Some("search")
    /\ engine_calls # <<>>

\* The limit the engine's search was called with, and the limit member of the arguments
PassedLimit == engine_calls[1].args[2]
GivenLimit == OptGet(ToolArguments, "limit")

\* C16: whatever limit the caller of the search tool gives, the limit passed
\* to the engine's search is within 1..100: 0 is passed as 1, 500 as 100, a
\* limit within the range as it is, and an absent limit, like a negative or
\* a non-integer one, as 10.
C16_SearchLimitClamped ==
    SearchReachedEngine =>
        /\ Len(engine_calls) = 1
        /\ engine_calls[1].op = "search"
        /\ PassedLimit \in 1..100
        /\ GivenLimit = Some(JNum(0)) => PassedLimit = 1
        /\ GivenLimit = Some(JNum(500)) => PassedLimit = 100
        /\ (IsSome(GivenLimit) /\ Unwrap(GivenLimit).t = "num"
               /\ Unwrap(GivenLimit).n > 100) => PassedLimit = 100
        /\ (IsSome(GivenLimit) /\ Unwrap(GivenLimit).t = "num"
               /\ Unwrap(GivenLimit).n \in 1..100) => PassedLimit = Unwrap(GivenLimit).n
        /\ IsNone(GivenLimit) => PassedLimit = 10
        /\ (IsSome(GivenLimit) /\ Unwrap(GivenLimit).t = "num" /\ Unwrap(GivenLimit).n < 0)
              => PassedLimit = 10
        /\ (IsSome(GivenLimit) /\ Unwrap(GivenLimit).t # "num") => PassedLimit = 10

\* search was called with limit 0 and the engine searched with limit 1
C16_Witness ==
    /\ SearchReachedEngine
    /\ GivenLimit = Some(JNum(0))
    /\ PassedLimit = 1
    /\ engine_calls[1].ok

----------------------------------------------------------------------------
(* Properties of the resources: section 4.5 *)

\* The string uri member of the params of the current request, None when there is none
GivenUri == AsStr(OptGet(CurrentParams, "uri"))

\* The response to the current request is the success with the empty object
SucceededEmpty ==
    /\ IsNone(Unwrap(response).error)
    /\ Unwrap(response).result = Some(JObj(<<>>))

\* The subscription set after subscribe(u), after unsubscribe(u), from the set subs
AfterSubscribe(subs, u) == SubscribeSet(subs, Some(JObj([uri |-> JStr(u)])))
AfterUnsubscribe(subs, u) == UnsubscribeSet(subs, Some(JObj([uri |-> JStr(u)])))

\* C17: subscriptions are set membership. The step that handles
\* resources/subscribe(u) adds u and nothing else, the step that handles
\* resources/unsubscribe(u) removes u and nothing else, and both succeed,
\* member or not. From every set the session reaches: subscribing twice is
\* subscribing once, unsubscribing a non-member changes nothing, and
\* subscribe(u) then unsubscribe(u) gives back a set that did not hold u.
C17_SubscriptionsAreASet ==
    /\ [][(Dispatching("resources/subscribe") /\ IsSome(GivenUri)) =>
            /\ subscribed_resources' = subscribed_resources \cup {Unwrap(GivenUri)}
            /\ Unwrap(response').result = Some(JObj(<<>>))
            /\ IsNone(Unwrap(response').error)]_vars
    /\ [][(Dispatching("resources/unsubscribe") /\ IsSome(GivenUri)) =>
            /\ subscribed_resources' = subscribed_resources \ {Unwrap(GivenUri)}
            /\ Unwrap(response').result = Some(JObj(<<>>))
            /\ IsNone(Unwrap(response').error)]_vars
    /\ [](\A u \in {"adi://status", "any string", "adi://tree"} :
            LET subs == subscribed_resources IN
            /\ u \in AfterSubscribe(subs, u)
            /\ u \notin AfterUnsubscribe(subs, u)
            /\ AfterSubscribe(AfterSubscribe(subs, u), u) = AfterSubscribe(subs, u)
            /\ u \notin subs => AfterUnsubscribe(subs, u) = subs
            /\ u \notin subs => AfterUnsubscribe(AfterSubscribe(subs, u), u) = subs
            /\ \A v \in subs \cup {"adi://config"} :
                 v # u => /\ (v \in AfterSubscribe(subs, u) <=> v \in subs)
                          /\ (v \in AfterUnsubscribe(subs, u) <=> v \in subs))

\* "any string", not subscribed, was unsubscribed while adi://status is
\* subscribed: the request succeeded and adi://status is still subscribed
C17_Witness ==
    /\ pc = "respond"
    /\ CurrentMethod = "resources/unsubscribe"
    /\ GivenUri = Some("any string")
    /\ subscribed_resources = {"adi://status"}
    /\ SucceededEmpty

\* The response to a resources/subscribe or resources/unsubscribe request is ready
SubscriptionDone ==
    /\ pc = "respond"
    /\ CurrentMethod \in {"resources/subscribe", "resources/unsubscribe"}

\* C18 as amended: resources/subscribe and resources/unsubscribe with a string
\* uri succeed with the empty result object in every session state; without
\* params or without a string uri they are answered with error -32602 and
\* the subscriptions stay as they were. Neither calls the engine.
C18_SubscriptionNeedsUri ==
    /\ [](SubscriptionDone =>
            /\ engine_calls = <<>>
            /\ IsSome(GivenUri) => SucceededEmpty
            /\ IsNone(GivenUri) => FailedWith(-32602))
    /\ [][((Dispatching("resources/subscribe") \/ Dispatching("resources/unsubscribe"))
              /\ IsNone(GivenUri)) => subscribed_resources' = subscribed_resources]_vars

\* With the engine absent a second URI is subscribed, successfully
C18_Witness ==
    /\ SubscriptionDone
    /\ CurrentMethod = "resources/subscribe"
    /\ IsNone(adi)
    /\ GivenUri = Some("any string")
    /\ subscribed_resources = {"adi://status", "any string"}
    /\ SucceededEmpty

\* C18 as stated: every resources/subscribe and resources/unsubscribe request
\* succeeds with the empty result object.
C18_SubscriptionAlwaysSucceeds == SubscriptionDone => SucceededEmpty

\* C19: while the engine is absent resources/list is answered with a success
\* whose resources member is the empty list, never with an error, whatever
\* the params; the engine is not called.
C19_ResourcesListWithoutEngine ==
    (pc = "respond" /\ CurrentMethod = "resources/list" /\ IsNone(adi)) =>
        /\ IsNone(Unwrap(response).error)
        /\ IsSome(Unwrap(response).result)
        /\ ResultMember("resources") = Some([t |-> "arr", a |-> <<>>])
        /\ DOMAIN Unwrap(Unwrap(response).result).o = {"resources"}
        /\ engine_calls = <<>>

\* resources/list with a cursor after an initialize that failed to open "/b"
C19_Witness ==
    /\ pc = "respond"
    /\ CurrentMethod = "resources/list"
    /\ IsNone(adi)
    /\ project_path = "/b"
    /\ OptGet(CurrentParams, "cursor") = Some(JStr("c"))
    /\ ResultMember("resources") = Some([t |-> "arr", a |-> <<>>])

\* The response to a resources/read request is ready
ResourcesReadDone == pc = "respond" /\ CurrentMethod = "resources/read"

\* A URI that is none of the three fixed ones and has neither prefix
IsUnknownUri(u) ==
    /\ u \notin {"adi://status", "adi://tree", "adi://config"}
    /\ ~(Len(u) >= 11 /\ SubSeq(u, 1, 11) = "adi://file/")
    /\ ~(Len(u) >= 13 /\ SubSeq(u, 1, 13) = "adi://symbol/")

\* C20: with the engine present, resources/read of a URI that is none of
\* adi://status, adi://tree, adi://config and starts with neither adi://file/
\* nor adi://symbol/ is answered with the invalid-params error -32602 whose
\* message names the URI, without an engine call; resources/read without a
\* string uri is answered with -32602 as well, in every session state.
C20_UnknownResourceUri ==
    /\ (ResourcesReadDone /\ IsSome(adi) /\ IsSome(GivenUri) /\ IsUnknownUri(Unwrap(GivenUri))) =>
          /\ FailedWith(-32602)
          /\ Contains(ErrorMessage, Unwrap(GivenUri))
          /\ engine_calls = <<>>
    /\ (ResourcesReadDone /\ IsNone(GivenUri)) =>
          /\ FailedWith(-32602)
          /\ engine_calls = <<>>

\* adi://bogus is read after a successful initialize
C20_Witness ==
    /\ ResourcesReadDone
    /\ IsSome(adi)
    /\ GivenUri = Some("adi://bogus")
    /\ FailedWith(-32602)
    /\ ErrorMessage = "Unknown resource URI: adi://bogus"

\* C21: while the engine is absent, resources/read of any URI, one of the
\* three fixed ones, a file URI, a symbol URI or an unrecognized one, is
\* answered with the internal error -32603, and the engine is not called.
C21_ResourcesReadWithoutEngine ==
    (ResourcesReadDone /\ IsNone(adi) /\ IsSome(GivenUri)) =>
        /\ FailedWith(-32603)
        /\ engine_calls = <<>>

\* An unrecognized URI is read after an initialize that failed to open "/a"
C21_Witness ==
    /\ ResourcesReadDone
    /\ IsNone(adi)
    /\ project_path = "/a"
    /\ GivenUri = Some("adi://bogus")
    /\ FailedWith(-32603)
    /\ ErrorMessage = "ADI not initialized"

----------------------------------------------------------------------------
(* Properties of the prompts and of completion: sections 4.6 and 4.7 *)

\* The response to a prompts/get request is ready
PromptsGetDone == pc = "respond" /\ CurrentMethod = "prompts/get"

\* The string name member of the params of prompts/get, None when there is none
PromptName == AsStr(OptGet(CurrentParams, "name"))

\* The seven prompt templates of the catalog
CataloguedPrompts ==
    {"code_review", "explain_symbol", "find_similar", "analyze_dependencies",
     "summarize_file", "refactor_suggestions", "architecture_overview"}

\* The messages of the current result, as a sequence
ResultMessages == Unwrap(ResultMember("messages")).a

\* C22: with the engine present and a name given, prompts/get fails only for
\* a name outside the seven templates, with -32602; for each of the seven it
\* succeeds with exactly one message, of role user and with text content,
\* whatever arguments are missing and whichever engine lookups or file
\* reads fail.
C22_PromptsGetDegrades ==
    (PromptsGetDone /\ IsSome(adi) /\ IsSome(PromptName)) =>
        /\ Unwrap(PromptName) \notin CataloguedPrompts =>
              (FailedWith(-32602) /\ engine_calls = <<>>)
        /\ Unwrap(PromptName) \in CataloguedPrompts =>
              /\ IsNone(Unwrap(response).error)
              /\ IsSome(ResultMember("messages"))
              /\ Unwrap(ResultMember("messages")).t = "arr"
              /\ Len(ResultMessages) = 1
              /\ JGet(ResultMessages[1], "role") = Some(JStr("user"))
              /\ OptGet(JGet(ResultMessages[1], "content"), "type") = Some(JStr("text"))
              /\ IsSome(OptGet(JGet(ResultMessages[1], "content"), "text"))
              /\ Unwrap(OptGet(JGet(ResultMessages[1], "content"), "text")).t = "str"

\* code_review without arguments, the engine's get_file failing and the file
\* unreadable: the one message holds the placeholder for the content
C22_Witness ==
    /\ PromptsGetDone
    /\ IsSome(adi)
    /\ PromptName = Some("code_review")
    /\ IsNone(OptGet(OptGet(CurrentParams, "arguments"), "file_path"))
    /\ engine_calls[1] = Call("get_file", <<"">>, FALSE)
    /\ IsNone(Unwrap(response).error)
    /\ Contains(Unwrap(OptGet(JGet(ResultMessages[1], "content"), "text")).s,
                "[File content not available]")

\* The response to a completion/complete request is ready
CompletionDone == pc = "respond" /\ CurrentMethod = "completion/complete"

\* The ref member of the params of the current request, None when there is none
GivenRef == OptGet(CurrentParams, "ref")

\* The completion member of the current result
ResultCompletion == ResultMember("completion")

\* The candidate values of the current result, as a sequence of JSON values
CompletionValues == Unwrap(OptGet(ResultCompletion, "values")).a

\* The current result is a completion with the given candidates and hasMore false
CompletionIs(values) ==
    /\ IsNone(Unwrap(response).error)
    /\ OptGet(ResultCompletion, "values") = Some(JArr(values))
    /\ OptGet(ResultCompletion, "hasMore") = Some(JBool(FALSE))

\* C23: completion/complete fails with -32602 when its params have no ref
\* member, whether or not the engine is present; with a ref member and no
\* engine it succeeds with an empty list of values and hasMore false,
\* whatever the ref type and the argument, and the engine is not called.
C23_CompletionRefThenEngine ==
    CompletionDone =>
        /\ IsNone(GivenRef) => (FailedWith(-32602) /\ engine_calls = <<>>)
        /\ (IsSome(GivenRef) /\ IsNone(adi)) => (CompletionIs(<<>>) /\ engine_calls = <<>>)

\* Without an engine, a focus completion that would have a candidate with an
\* engine yields none
C23_Witness ==
    /\ CompletionDone
    /\ IsNone(adi)
    /\ CurrentParams = CompletionRequest("ref/prompt", "focus", "sec")
    /\ CompletionIs(<<>>)

\* The type of the ref, and the name and value of the argument, of the current
\* completion request; the empty string stands for a missing or non-string one
RefType == UnwrapOr(AsStr(OptGet(GivenRef, "type")), "")
ArgumentName == UnwrapOr(AsStr(OptGet(OptGet(CurrentParams, "argument"), "name")), "")
ArgumentValue == UnwrapOr(AsStr(OptGet(OptGet(CurrentParams, "argument"), "value")), "")

\* value occurs in str as a substring
OccursIn(value, str) ==
    \E i \in 0..(Len(str) - Len(value)) : SubSeq(str, i + 1, i + Len(value)) = value

\* The members of a fixed list in which the value occurs, in the list's order
Candidates(fixed, value) ==
    LET kept == SelectSeq(fixed, LAMBDA str : OccursIn(value, str))
    IN  [i \in 1..Len(kept) |-> JStr(kept[i])]

\* The (ref type, argument name) pairs that the completion has candidates for
CataloguedPair ==
    \/ RefType = "ref/resource"
    \/ RefType = "ref/prompt" /\
         ArgumentName \in {"file_path", "symbol_name", "target", "focus", "direction"}

\* C24: with the engine present, completion for a prompt's focus argument
\* yields the members of (security, performance, style, bugs, general) in
\* which the value occurs, for its direction argument the members of
\* (callers, callees, both) in which it occurs, each in that order and
\* without a call of the engine; "sec" yields security alone and "call"
\* yields callers and callees; a pair outside the catalogued ones yields
\* the empty list.
C24_FixedSetCompletions ==
    (CompletionDone /\ IsSome(adi) /\ IsSome(GivenRef)) =>
        /\ (RefType = "ref/prompt" /\ ArgumentName = "focus") =>
              /\ CompletionIs(Candidates(
                    <<"security", "performance", "style", "bugs", "general">>, ArgumentValue))
              /\ ArgumentValue = "sec" => CompletionValues = <<JStr("security")>>
              /\ engine_calls = <<>>
        /\ (RefType = "ref/prompt" /\ ArgumentName = "direction") =>
              /\ CompletionIs(Candidates(<<"callers", "callees", "both">>, ArgumentValue))
              /\ ArgumentValue = "call" =>
                    CompletionValues = <<JStr("callers"), JStr("callees")>>
              /\ engine_calls = <<>>
        /\ ~CataloguedPair => (CompletionIs(<<>>) /\ engine_calls = <<>>)

\* With the engine present, the value e of focus yields the four members
\* that hold an e, in the order of the fixed list
C24_Witness ==
    /\ CompletionDone
    /\ IsSome(adi)
    /\ CurrentParams = CompletionRequest("ref/prompt", "focus", "e")
    /\ CompletionValues =
         <<JStr("security"), JStr("performance"), JStr("style"), JStr("general")>>

----------------------------------------------------------------------------
(* Properties of the lifecycle and of the server as a whole: sections 4.2, 5 and 7 *)

\* The response to an initialized or a ping request is ready
LifecycleNoOpDone == pc = "respond" /\ CurrentMethod \in {"initialized", "ping"}

\* C25: initialized and ping succeed with the empty object as result, in
\* every session state and with any params, call no engine operation, and
\* the step that handles them leaves the engine, the project root and the
\* subscriptions as they were.
C25_LifecycleNoOps ==
    /\ [](LifecycleNoOpDone =>
            /\ Unwrap(response).result = Some(EmptyObj)
            /\ IsNone(Unwrap(response).error)
            /\ engine_calls = <<>>)
    /\ [][(pc = "dispatch" /\ CurrentMethod \in {"initialized", "ping"}) =>
            /\ session' = session
            /\ pc' = "respond"]_vars

\* ping with params is answered in a session with an engine and a subscription
C25_Witness ==
    /\ LifecycleNoOpDone
    /\ CurrentMethod = "ping"
    /\ IsSome(CurrentParams)
    /\ IsSome(adi)
    /\ subscribed_resources # {}
    /\ Unwrap(response).result = Some(EmptyObj)

\* A response is at hand and it is an error
ErrorAtHand == IsSome(response) /\ IsSome(Unwrap(response).error)

\* The code of the error at hand
ErrorCode == Unwrap(Unwrap(response).error).code

\* C26: the code of every error response is one of -32700, -32601, -32602
\* and -32603; -32700 is the code of the transport's answer to a line that
\* is no request envelope, and of no response of a dispatched method;
\* -32601 is the code of responses to method names outside the catalog only.
C26_ClosedErrorCodes ==
    ErrorAtHand =>
        /\ ErrorCode \in {-32700, -32601, -32602, -32603}
        /\ ErrorCode = -32700 =>
              /\ pc = "parse_error"
              /\ IsNone(request)
              /\ ~IsRequestEnvelope(Unwrap(line))
        /\ Handling => ErrorCode # -32700
        /\ ErrorCode = -32601 =>
              /\ pc = "respond"
              /\ CurrentMethod \notin CataloguedMethods

\* An engine operation called for a catalogued method failed, and the
\* response carries -32603
C26_Witness ==
    /\ pc = "respond"
    /\ CurrentMethod \in CataloguedMethods
    /\ engine_calls # <<>>
    /\ ~LastCall.ok
    /\ ErrorAtHand
    /\ ErrorCode = -32603

\* A non-blank line has been read and its response is not yet written
Answerable == pc \in {"parse_error", "lock", "dispatch", "open", "respond"}

\* Every non-blank line read so far has its response on stdout, flushed
AllAnswered == Len(stdout) = nonblank /\ flushed = Len(stdout)

\* C27: whatever response is written (a result or an error of any code), the
\* step that writes it returns the loop to reading with the mutex free, where
\* the next line, of any kind, can be read; the loop ends at the end of input
\* only; and, the engine's calls returning, every non-blank line that was
\* read is in the end answered.
C27_NoOutcomeStopsTheServer ==
    /\ [][stdout' # stdout => (pc' = "read" /\ ~lock' /\ AllAnswered')]_vars
    /\ [][pc' = "exit" => pc = "read"]_vars
    /\ []((pc = "read" /\ nread < MaxLines) =>
            (ENABLED ReceiveRequest /\ ENABLED ParseError /\ ENABLED SkipBlankLine))
    /\ Answerable ~> (pc = "read" /\ AllAnswered)

\* Three non-blank lines were read and answered, the third after the first
\* two, the session being without engine
C27_Witness ==
    /\ pc = "read"
    /\ nonblank = MaxLines
    /\ stdout = <<1, 2, 3>>
    /\ AllAnswered
    /\ IsNone(adi)

\* The response to an initialize request is ready
InitializeDone == pc = "respond" /\ CurrentMethod = "initialize"

\* The string rootUri member of the params of the current request, None when
\* there is none
GivenRootUri == AsStr(OptGet(CurrentParams, "rootUri"))

\* The rootUri is a string of the form file://P
IsFileUri(u) == Len(u) >= 7 /\ SubSeq(u, 1, 7) = "file://"

\* The current request's handler called Adi::open once, at this path, and
\* nothing else of the engine
OpenedAt(path) ==
    /\ Len(engine_calls) = 1
    /\ engine_calls[1].op = "open"
    /\ engine_calls[1].args = <<path>>

\* C28, as amended: a session starts with the current directory as project
\* root, and only initialize changes the root. initialize with a string
\* rootUri file://P makes P the root, with any other string rootUri makes
\* that string the root, and without a string rootUri leaves the root as it
\* was (the current directory only if no earlier initialize named a root);
\* it then attempts to open the engine once, at the root.
C28_ProjectRootResolution ==
    /\ project_path = "."
    /\ [][IF pc = "dispatch" /\ CurrentMethod = "initialize"
          THEN project_path' =
                  IF IsNone(GivenRootUri) THEN project_path
                  ELSE IF IsFileUri(Unwrap(GivenRootUri))
                  THEN SubSeq(Unwrap(GivenRootUri), 8, Len(Unwrap(GivenRootUri)))
                  ELSE Unwrap(GivenRootUri)
          ELSE project_path' = project_path]_vars
    /\ [](InitializeDone => OpenedAt(project_path))

\* An initialize without rootUri, after one that named /a, opens the engine at /a
C28_Witness ==
    /\ InitializeDone
    /\ IsNone(GivenRootUri)
    /\ project_path = "/a"
    /\ OpenedAt("/a")

\* C28 as stated: rootUri file://P makes P the root and the engine is opened
\* at P; without rootUri the engine is opened at the current directory
C28_NoRootUriMeansCurrentDirectory ==
    InitializeDone =>
        /\ (IsSome(GivenRootUri) /\ IsFileUri(Unwrap(GivenRootUri))) =>
              /\ project_path = SubSeq(Unwrap(GivenRootUri), 8, Len(Unwrap(GivenRootUri)))
              /\ OpenedAt(project_path)
        /\ IsNone(OptGet(CurrentParams, "rootUri")) =>
              /\ project_path = "."
              /\ OpenedAt(".")

\* The outcome of the Adi::open the current initialize request made
OpenOutcome == engine_calls[1].ok

\* C29: initialize is served in every session state, the engine being
\* present or not: each call resolves the project root from its params and
\* attempts the engine open at it; after a successful open the session's
\* engine is the one opened by this call, at this root. A second call with
\* the same params and the same open outcome, made in the state the first
\* one left, resolves the same root, leaves the same engine and returns the
\* same payload.
C29_InitializeRepeatable ==
    InitializeDone =>
        /\ OpenedAt(project_path)
        /\ IsSome(GivenRootUri) =>
              project_path = IF IsFileUri(Unwrap(GivenRootUri))
                             THEN SubSeq(Unwrap(GivenRootUri), 8, Len(Unwrap(GivenRootUri)))
                             ELSE Unwrap(GivenRootUri)
        /\ OpenOutcome => (IsSome(adi) /\ Unwrap(adi).root = project_path)
        /\ Unwrap(response).result = Some(InitializeResult)
        /\ IsNone(Unwrap(response).error)
        /\ ResolveProjectPath(project_path, CurrentParams) = project_path
        /\ AfterOpen(adi, project_path, OpenOutcome) = adi
        /\ handle_initialize_result(OpenOutcome) = Ok(Unwrap(Unwrap(response).result))

\* A later initialize named another root and its open failed: the root is the
\* new one, the engine is still the one an earlier call opened
C29_Witness ==
    /\ InitializeDone
    /\ ~OpenOutcome
    /\ IsSome(adi)
    /\ Unwrap(adi).root = "/a"
    /\ project_path = "/b"
    /\ OpenedAt("/b")

----------------------------------------------------------------------------
(* Properties of the tools' results: section 4.4 *)

\* The content member of the current result, as a sequence
ResultContent == Unwrap(ResultMember("content")).a

\* C30: with the engine present, a tools/call that reaches the engine calls
\* the one operation that bears the tool's name; when the operation fails
\* the response is the error -32603 with the engine error's display text as
\* message; when it succeeds the result's content is a list of exactly one
\* item, of type text and with a string as text.
C30_ToolOutcome ==
    (ToolsCallDone /\ IsSome(adi) /\ engine_calls # <<>>) =>
        /\ Len(engine_calls) = 1
        /\ IsSome(ToolName)
        /\ Unwrap(ToolName) \in CataloguedTools
        /\ LastCall.op = Unwrap(ToolName)
        /\ ~LastCall.ok =>
              /\ FailedWith(-32603)
              /\ ErrorMessage = ENGINE_ERROR
        /\ LastCall.ok =>
              /\ IsNone(Unwrap(response).error)
              /\ IsSome(ResultMember("content"))
              /\ Unwrap(ResultMember("content")).t = "arr"
              /\ Len(ResultContent) = 1
              /\ JGet(ResultContent[1], "type") = Some(JStr("text"))
              /\ IsSome(JGet(ResultContent[1], "text"))
              /\ Unwrap(JGet(ResultContent[1], "text")).t = "str"

\* get_symbol_usage fails in the engine, for a symbol id that was given
C30_Witness ==
    /\ ToolsCallDone
    /\ IsSome(adi)
    /\ ToolName = Some("get_symbol_usage")
    /\ engine_calls = <<Call("get_symbol_usage", <<3>>, FALSE)>>
    /\ FailedWith(-32603)
    /\ ErrorMessage = ENGINE_ERROR

----------------------------------------------------------------------------
(* Properties of the resources with the engine present: section 4.5 *)

\* The response to a resources/list request is ready
ResourcesListDone == pc = "respond" /\ CurrentMethod = "resources/list"

\* The resources of the current result, as a sequence
ResultResources == Unwrap(ResultMember("resources")).a

\* The URI of the i-th listed resource
ListedUri(i) == Unwrap(JGet(ResultResources[i], "uri")).s

\* The file trees the engine may answer get_tree with
EngineTrees == Trees \cup {LargeTree}

\* The smaller of two numbers
Min(a, b) == IF a < b THEN a ELSE b

\* The listed resources after the third are the files at the front of this
\* tree, at most a hundred of them, in the tree's order
ListsFrontOf(tree) ==
    /\ Len(ResultResources) = 3 + Min(Len(tree), 100)
    /\ \A i \in 1..Min(Len(tree), 100) : ListedUri(3 + i) = "adi://file/" \o tree[i].path

\* C31: with the engine present, resources/list succeeds with a list that
\* starts with adi://status, adi://tree and adi://config, in this order,
\* followed by the adi://file/ entries of the first hundred files at most of
\* the engine's tree, in the tree's order (by none when get_tree fails); the
\* list has no more than 103 entries.
C31_ResourcesListCapped ==
    (ResourcesListDone /\ IsSome(adi)) =>
        /\ IsNone(Unwrap(response).error)
        /\ IsSome(ResultMember("resources"))
        /\ Unwrap(ResultMember("resources")).t = "arr"
        /\ Len(ResultResources) >= 3
        /\ Len(ResultResources) <= 103
        /\ ListedUri(1) = "adi://status"
        /\ ListedUri(2) = "adi://tree"
        /\ ListedUri(3) = "adi://config"
        /\ engine_calls = <<Call("get_tree", <<>>, LastCall.ok)>>
        /\ IF LastCall.ok
           THEN \E tree \in EngineTrees : ListsFrontOf(tree)
           ELSE Len(ResultResources) = 3

\* The tree has 102 files: the list ends with the hundredth
C31_Witness ==
    /\ ResourcesListDone
    /\ IsSome(adi)
    /\ Len(ResultResources) = 103
    /\ ListedUri(4) = "adi://file/gen/f1.rs"
    /\ ListedUri(103) = "adi://file/gen/f100.rs"

\* The current request reads a resource whose URI starts with adi://symbol/
\* while the engine is present
SymbolRead ==
    /\ ResourcesReadDone
    /\ IsSome(adi)
    /\ IsSome(GivenUri)
    /\ Len(Unwrap(GivenUri)) >= 13
    /\ SubSeq(Unwrap(GivenUri), 1, 13) = "adi://symbol/"

\* What follows adi://symbol/ in the URI
SymbolIdText == SubSeq(Unwrap(GivenUri), 14, Len(Unwrap(GivenUri)))

\* The text without its sign, if it has one
Unsigned(x) == IF Len(x) > 0 /\ SubSeq(x, 1, 1) \in {"+", "-"} THEN SubSeq(x, 2, Len(x)) ELSE x

\* The text is a decimal number: an optional sign and one digit or more
IsDecimalText(x) ==
    /\ Len(Unsigned(x)) >= 1
    /\ \A i \in 1..Len(Unsigned(x)) :
          SubSeq(Unsigned(x), i, i) \in {"0", "1", "2", "3", "4", "5", "6", "7", "8", "9"}

\* The text is a decimal number that an i64 holds for sure (18 digits at most)
ParsesAsI64(x) == IsDecimalText(x) /\ Len(Unsigned(x)) <= 18

\* The text is no decimal number, or one that no i64 holds (20 digits or more,
\* the first not 0)
ParseFails(x) ==
    \/ ~IsDecimalText(x)
    \/ Len(Unsigned(x)) >= 20 /\ SubSeq(Unsigned(x), 1, 1) # "0"

\* The contents of the current result, as a sequence
ResultContents == Unwrap(ResultMember("contents")).a

\* The JSON document that is the text of the one content of the current result
ContentDocument == Unwrap(JGet(ResultContents[1], "text")).s.pretty

\* The read of a symbol went as the claim says, but for what becomes of usage
SymbolReadOutcome ==
    /\ ParseFails(SymbolIdText) => (FailedWith(-32602) /\ engine_calls = <<>>)
    /\ ParsesAsI64(SymbolIdText) =>
          /\ engine_calls # <<>>
          /\ engine_calls[1].op = "get_symbol"
          /\ ~engine_calls[1].ok => (FailedWith(-32603) /\ Len(engine_calls) = 1)
          /\ engine_calls[1].ok =>
                /\ IsNone(Unwrap(response).error)
                /\ Len(engine_calls) = 2
                /\ engine_calls[2].op = "get_symbol_usage"
                /\ engine_calls[2].args = engine_calls[1].args
                /\ Len(ResultContents) = 1
                /\ "symbol" \in DOMAIN ContentDocument

\* The symbol was found and the lookup of its usage failed
UsageLookupFailed ==
    /\ SymbolRead
    /\ Len(engine_calls) = 2
    /\ engine_calls[1].ok
    /\ ~engine_calls[2].ok

\* C32, as amended: with the engine present, resources/read of
\* adi://symbol/X returns -32602 when X does not parse as an i64 (the empty
\* string, a text that is no decimal number, a number beyond i64); when X
\* parses, a failure of the symbol lookup is the error -32603, and when the
\* symbol lookup succeeds the read succeeds whether or not the usage lookup
\* fails: the document read has a usage member, which is null when the usage
\* lookup failed.
C32_SymbolRead ==
    SymbolRead =>
        /\ SymbolReadOutcome
        /\ (ParsesAsI64(SymbolIdText) /\ engine_calls[1].ok) =>
              /\ "usage" \in DOMAIN ContentDocument
              /\ IsNone(ContentDocument.usage) <=> ~engine_calls[2].ok

\* adi://symbol/12: the symbol is found, the usage lookup fails, the read
\* succeeds with a null usage
C32_Witness ==
    /\ UsageLookupFailed
    /\ GivenUri = Some("adi://symbol/12")
    /\ engine_calls[1].args = <<12>>
    /\ IsNone(Unwrap(response).error)
    /\ ContentDocument.usage = None

\* C32 as stated: the document has no usage member when the usage lookup failed
C32_UsageOmitted ==
    SymbolRead =>
        /\ SymbolReadOutcome
        /\ UsageLookupFailed => "usage" \notin DOMAIN ContentDocument

\* The current request reads adi://file/P with the engine present, and the
\* engine's get_file succeeded
FileReadWithMetadata ==
    /\ ResourcesReadDone
    /\ IsSome(adi)
    /\ IsSome(GivenUri)
    /\ Len(Unwrap(GivenUri)) >= 11
    /\ SubSeq(Unwrap(GivenUri), 1, 11) = "adi://file/"
    /\ engine_calls # <<>>
    /\ engine_calls[1].op = "get_file"
    /\ engine_calls[1].ok

\* The text of the one content of the current result
ContentText == Unwrap(JGet(ResultContents[1], "text")).s

\* The text is the file's metadata merged with its content
MergedWithContent(text) == DOMAIN text = {"file", "symbols", "content"}

\* The text is the file's metadata alone
MetadataOnly(text) == DOMAIN text = {"pretty"} /\ DOMAIN text.pretty = {"file", "symbols"}

\* The text of the one message of the current result
MessageText == Unwrap(OptGet(JGet(ResultMessages[1], "content"), "text")).s

\* The response to prompts/get of this template, with the engine present, is ready
PromptDone(name) == PromptsGetDone /\ IsSome(adi) /\ PromptName = Some(name)

\* C33: whether or not the file can be read from disk, resources/read of
\* adi://file/P succeeds once the engine's get_file has succeeded, with the
\* metadata merged with the content or with the metadata alone; and
\* prompts/get of code_review and of summarize_file succeed with one message
\* that holds the content or, in its place, the template's placeholder.
C33_UnreadableFileDegrades ==
    /\ FileReadWithMetadata =>
          /\ IsNone(Unwrap(response).error)
          /\ Len(ResultContents) = 1
          /\ MergedWithContent(ContentText) \/ MetadataOnly(ContentText)
    /\ PromptDone("code_review") =>
          /\ IsNone(Unwrap(response).error)
          /\ Len(ResultMessages) = 1
          /\ OccursIn("<content of ", MessageText)
               \/ OccursIn("[File content not available]", MessageText)
    /\ PromptDone("summarize_file") =>
          /\ IsNone(Unwrap(response).error)
          /\ Len(ResultMessages) = 1
          /\ OccursIn("<content of ", MessageText)
               \/ OccursIn("[Content not available]", MessageText)

\* adi://file/src/a.rs is read, the engine knows the file, the file cannot
\* be read from disk: the result holds the metadata alone
C33_Witness ==
    /\ FileReadWithMetadata
    /\ GivenUri = Some("adi://file/src/a.rs")
    /\ IsNone(Unwrap(response).error)
    /\ MetadataOnly(ContentText)

----------------------------------------------------------------------------
(* Properties of the engine boundary: sections 6 and 7 *)

\* The i-th engine call of the current request is one whose failure section 4
\* lets pass: the open of initialize, the usage lookup of an adi://symbol
\* read, the context lookups of prompt composition
FailureMayPass(i) ==
    \/ CurrentMethod = "initialize"
    \/ CurrentMethod = "prompts/get"
    \/ CurrentMethod = "resources/read" /\ engine_calls[i].op = "get_symbol_usage"

\* C34: when an engine operation called for the current request failed, and
\* it is none of those whose failure section 4 lets pass, the response is an
\* error; so for a get_tree that fails during resources/list and for a
\* get_tree or search_symbols that fails during completion/complete.
C34_EngineFailuresReported ==
    pc = "respond" =>
        \A i \in 1..Len(engine_calls) :
            (~engine_calls[i].ok /\ ~FailureMayPass(i)) =>
                /\ ErrorAtHand
                /\ ErrorCode = -32603

\* get_tree failed during resources/list and the response is a success
\* listing the three fixed resources
C34_Witness ==
    /\ ResourcesListDone
    /\ IsSome(adi)
    /\ engine_calls = <<Call("get_tree", <<>>, FALSE)>>
    /\ IsNone(Unwrap(response).error)
    /\ Len(ResultResources) = 3

----------------------------------------------------------------------------
(* Properties of completion with the engine present: section 4.7 *)

\* The current completion request, with the engine present, asks for file paths
FilePathCompletion ==
    /\ CompletionDone
    /\ IsSome(adi)
    /\ IsSome(GivenRef)
    /\ RefType = "ref/resource" \/ (RefType = "ref/prompt" /\ ArgumentName = "file_path")

\* The paths of the tree's files in which the value occurs, in the tree's
\* order, the first twenty at most
PathCandidates(tree, value) ==
    LET kept == SelectSeq(tree, LAMBDA f : OccursIn(value, f.path))
    IN  [i \in 1..Min(Len(kept), 20) |-> JStr(kept[i].path)]

\* C35: every successful completion/complete reports hasMore false. With the
\* engine present, a completion of file paths (ref type ref/resource, or
\* ref/prompt with the argument file_path) asks the engine for its tree once
\* and yields the paths of the tree in which the value occurs, in the tree's
\* order, the first twenty at most (none when get_tree fails); a completion
\* of symbol_name or target with the empty value does not call the engine
\* and yields the empty list.
C35_FilePathCompletions ==
    /\ (CompletionDone /\ IsNone(Unwrap(response).error)) =>
          /\ OptGet(ResultCompletion, "hasMore") = Some(JBool(FALSE))
          /\ IsSome(OptGet(ResultCompletion, "values"))
    /\ FilePathCompletion =>
          /\ IsNone(Unwrap(response).error)
          /\ engine_calls = <<Call("get_tree", <<>>, LastCall.ok)>>
          /\ Len(CompletionValues) <= 20
          /\ IF LastCall.ok
             THEN \E tree \in EngineTrees :
                     CompletionValues = PathCandidates(tree, ArgumentValue)
             ELSE CompletionValues = <<>>
    /\ (CompletionDone /\ IsSome(adi) /\ IsSome(GivenRef) /\ RefType = "ref/prompt"
          /\ ArgumentName \in {"symbol_name", "target"} /\ ArgumentValue = "") =>
          /\ CompletionIs(<<>>)
          /\ engine_calls = <<>>

\* The value f10 occurs in four paths of the tree of 102 files, three of them
\* beyond the twentieth file
C35_Witness ==
    /\ FilePathCompletion
    /\ ArgumentValue = "f10"
    /\ CompletionValues = <<JStr("gen/f10.rs"), JStr("gen/f100.rs"),
                            JStr("gen/f101.rs"), JStr("gen/f102.rs")>>

----------------------------------------------------------------------------
(* Properties of the order of the checks: sections 4.4 to 4.6 and 7 *)

\* The response to a tools/call, resources/read or prompts/get request is ready
EngineMethodDone ==
    pc = "respond" /\ CurrentMethod \in {"tools/call", "resources/read", "prompts/get"}

\* The string member that names what the current request is about: the uri
\* of resources/read, the name of tools/call and prompts/get
Subject ==
    AsStr(OptGet(CurrentParams, IF CurrentMethod = "resources/read" THEN "uri" ELSE "name"))

\* C36: tools/call, resources/read and prompts/get check, in this order, for
\* the params (-32602), for the string name or uri (-32602) and for the engine
\* (-32603), before anything else is looked at and without an engine call. So
\* without params or without name or uri the answer is -32602 with or
\* without engine; with them and without engine it is -32603 whatever the
\* tool, the arguments, the URI or the prompt; and -32602 for an unknown tool,
\* a missing identifier, an unknown URI, a malformed symbol id or an unknown
\* prompt is met with the engine present only.
C36_OrderOfChecks ==
    EngineMethodDone =>
        /\ IsNone(CurrentParams) =>
              (FailedWith(-32602) /\ ErrorMessage = "Missing params" /\ engine_calls = <<>>)
        /\ IsNone(Subject) => (FailedWith(-32602) /\ engine_calls = <<>>)
        /\ (IsSome(Subject) /\ IsNone(adi)) => (FailedWith(-32603) /\ engine_calls = <<>>)
        /\ (IsSome(Subject) /\ ErrorAtHand /\ ErrorCode = -32602) => IsSome(adi)

\* A malformed symbol id is read without engine: the answer is -32603
C36_Witness ==
    /\ ResourcesReadDone
    /\ IsNone(adi)
    /\ GivenUri = Some("adi://symbol/x")
    /\ FailedWith(-32603)
    /\ engine_calls = <<>>

----------------------------------------------------------------------------
(* Properties of the session as a whole: sections 3 and 4.2 *)

\* The engine is present and was opened at the current project root
EngineAtProjectPath == IsSome(adi) /\ Unwrap(adi).root = project_path

\* C37, as amended: the engine present is the one opened by the latest
\* initialize whose open succeeded, at the project root of that call: the
\* engine changes only when an open succeeds, and is then at the current
\* project root; the project root changes only when initialize resolves it.
\* The two roots stay the same until an initialize names another root; they
\* are the same again if its open succeeds, and differ from then on if it
\* fails, the engine of the earlier root going on serving requests.
C37_EngineRootFollowsSuccessfulOpen ==
    /\ [][adi' # adi =>
            /\ pc = "open"
            /\ engine_calls'[1].ok
            /\ EngineAtProjectPath']_vars
    /\ [][(pc = "open" /\ engine_calls'[1].ok) => EngineAtProjectPath']_vars
    /\ [][project_path' # project_path =>
            /\ pc = "dispatch"
            /\ CurrentMethod = "initialize"
            /\ IsSome(GivenRootUri)]_vars
    /\ [][(EngineAtProjectPath /\ ~EngineAtProjectPath') =>
            /\ pc = "dispatch"
            /\ CurrentMethod = "initialize"
            /\ adi' = adi]_vars

\* A tools/call is about to be served by the engine opened at /a, the
\* project root being /b since an initialize whose open failed
C37_Witness ==
    /\ pc = "dispatch"
    /\ CurrentMethod = "tools/call"
    /\ IsSome(adi)
    /\ Unwrap(adi).root = "/a"
    /\ project_path = "/b"

\* C37 as stated: whenever the engine is present and no open is under way,
\* the engine was opened at the current project root
C37_EngineAlwaysAtProjectPath ==
    (IsSome(adi) /\ pc # "open") => Unwrap(adi).root = project_path

\* A step of the handler of the current request
HandlerStep == pc \in {"dispatch", "open"}

\* C38: each method changes its own part of the session only. A step of
\* initialize leaves the subscription set as it is; a step of
\* resources/subscribe or resources/unsubscribe leaves the engine and the
\* project root as they are, and with a string uri it adds or removes this
\* uri, engine or no engine; a step of any other method, a step that ends in
\* an error response of a method other than initialize, and a step of the
\* transport leave the engine, the project root and the subscription set as
\* they are.
C38_FrameOfEachMethod ==
    /\ [][(HandlerStep /\ CurrentMethod = "initialize") =>
            subscribed_resources' = subscribed_resources]_vars
    /\ [][(HandlerStep /\ CurrentMethod \in {"resources/subscribe", "resources/unsubscribe"}) =>
            /\ adi' = adi
            /\ project_path' = project_path
            /\ IsSome(GivenUri) =>
                  subscribed_resources' =
                     IF CurrentMethod = "resources/subscribe"
                     THEN subscribed_resources \cup {Unwrap(GivenUri)}
                     ELSE subscribed_resources \ {Unwrap(GivenUri)}]_vars
    /\ [][(HandlerStep /\ CurrentMethod \notin {"initialize", "resources/subscribe",
                                                 "resources/unsubscribe"}) =>
            session' = session]_vars
    /\ [][(HandlerStep /\ CurrentMethod # "initialize" /\ IsSome(Unwrap(response').error)) =>
            session' = session]_vars
    /\ [][~HandlerStep => session' = session]_vars

\* A subscription made without engine is still there after an initialize
\* that opened the engine
C38_Witness ==
    /\ InitializeDone
    /\ OpenOutcome
    /\ IsSome(adi)
    /\ nonblank = 2
    /\ subscribed_resources = {"any string"}

----------------------------------------------------------------------------
(* Properties of lines that are no request: sections 3 and 7 *)

\* The line at hand is JSON, carries an id, and is no request envelope
JsonWithIdButNoEnvelope ==
    /\ IsSome(line)
    /\ ~IsText(Unwrap(line))
    /\ Unwrap(line).doc.t = "obj"
    /\ IsSome(SentId)
    /\ ~IsRequestEnvelope(Unwrap(line))

====
